---- MODULE Spec2Model ----
(***************************************************************************)
(* Finance planner: the projection engine (app/lib/engine.ts), the plan    *)
(* document (app/lib/store.ts) and the page handlers that edit the plan.   *)
(*                                                                         *)
(* Representation.                                                         *)
(*  - A JavaScript string is a sequence of UTF-16 code units, so that      *)
(*    slice, Number(), padStart and the < comparison of strings are        *)
(*    computed as the code computes them.  Month keys only use the digits, *)
(*    '-' and a few letters.                                               *)
(*  - A JavaScript number is an integer; every non-finite or missing       *)
(*    number (NaN, Infinity, undefined, null) is the one value NaN, which  *)
(*    is what Number.isFinite distinguishes.                               *)
(*  - null results are the empty sequence (an optional number is <<>> or   *)
(*    <<n>>; a null month is the empty string, which is falsy like null).  *)
(***************************************************************************)
EXTENDS Integers, Sequences, FiniteSets, TLC

\* The value standing for every number that Number.isFinite rejects.
NaN == -999999999

isFinite(x) == x # NaN

(***************************************************************************)
(* Strings                                                                 *)
(***************************************************************************)
\* Code units: '0'..'9' are 48..57, '-' is 45.
Minus == 45
Zero == 48

IsDigit(c) == c >= 48 /\ c <= 57

\* The text "NaN", as template literals and String() print a NaN.
NaNText == <<78, 97, 78>>

\* a < b on strings: code-unit lexicographic order.
StrLess(a, b) ==
  \E k \in 1..(Len(b)) :
     /\ k <= Len(a) + 1
     /\ \A j \in 1..(k - 1) : a[j] = b[j]
     /\ (k = Len(a) + 1 \/ a[k] < b[k])

StrLeq(a, b) == a = b \/ StrLess(a, b)

\* s.slice(from, to) with 0 <= from <= to (0-based, end exclusive).
Slice(s, from, to) ==
  LET hi == IF to < Len(s) THEN to ELSE Len(s)
  IN  IF from >= hi THEN <<>> ELSE SubSeq(s, from + 1, hi)

RECURSIVE DigitsValue(_)
DigitsValue(s) ==
  IF s = <<>> THEN 0
  ELSE 10 * DigitsValue(SubSeq(s, 1, Len(s) - 1)) + (s[Len(s)] - Zero)

AllDigits(s) == \A k \in 1..Len(s) : IsDigit(s[k])

\* Number(s) on the strings of the model's alphabet: "" is 0, a run of
\* digits its value, '-' and a run of digits the negative value, anything
\* else NaN.
NumberOf(s) ==
  IF s = <<>> THEN 0
  ELSE IF AllDigits(s) THEN DigitsValue(s)
  ELSE IF s[1] = Minus /\ Len(s) > 1 /\ AllDigits(Tail(s)) THEN 0 - DigitsValue(Tail(s))
  ELSE NaN

RECURSIVE NatText(_)
NatText(n) ==
  IF n < 10 THEN <<Zero + n>> ELSE NatText(n \div 10) \o <<Zero + (n % 10)>>

\* String(n) of an integer or NaN.
StringOf(n) ==
  IF n = NaN THEN NaNText
  ELSE IF n < 0 THEN <<Minus>> \o NatText(0 - n)
  ELSE NatText(n)

\* s.padStart(2, '0')
PadStart2(s) ==
  IF Len(s) >= 2 THEN s ELSE IF Len(s) = 1 THEN <<Zero>> \o s ELSE <<Zero, Zero>>

\* /^\d{4}-\d{2}$/.test(s)
IsMonthKey(s) ==
  /\ Len(s) = 7
  /\ \A k \in {1, 2, 3, 4, 6, 7} : IsDigit(s[k])
  /\ s[5] = Minus

\* Math.floor(t / 12) and the JavaScript remainder t % 12 (sign of t).
FloorDiv12(t) == t \div 12
JsRem12(t) == IF t >= 0 THEN t % 12 ELSE 0 - ((0 - t) % 12)

\* `${y}-${String(m + 1).padStart(2, '0')}`
FormatMonth(y, m) ==
  StringOf(y) \o <<Minus>> \o PadStart2(StringOf(IF m = NaN THEN NaN ELSE m + 1))

\* Number(start.slice(0, 4)) and Number(start.slice(5, 7)) - 1
startYOf(start) == NumberOf(Slice(start, 0, 4))
startMOf(start) ==
  LET sm == NumberOf(Slice(start, 5, 7)) IN IF sm = NaN THEN NaN ELSE sm - 1

\* The key with String(m) for String(m + 1): months '00'..'11'.
MutMonthKeyZeroBased(startY, startM, i) ==
  LET t == IF startY = NaN \/ startM = NaN THEN NaN ELSE startY * 12 + startM + i
      y == IF t = NaN THEN NaN ELSE FloorDiv12(t)
      m == IF t = NaN THEN NaN ELSE JsRem12(t)
  IN  FormatMonth(y, IF m = NaN THEN NaN ELSE m - 1)

\* The month key of loop index i: t = startY * 12 + startM + i,
\* y = Math.floor(t / 12), m = t % 12.  A NaN year or month makes t NaN.
monthKeyAt(startY, startM, i) ==
  LET t == IF startY = NaN \/ startM = NaN THEN NaN ELSE startY * 12 + startM + i
      y == IF t = NaN THEN NaN ELSE FloorDiv12(t)
      m == IF t = NaN THEN NaN ELSE JsRem12(t)
  IN  FormatMonth(y, m)

\* A well-formed key from a year and a month 1..12 (the model's notation
\* for literals such as '2026-01').
MK(y, m) == NatText(y) \o <<Minus>> \o PadStart2(NatText(m))

(***************************************************************************)
(* Arrays                                                                  *)
(***************************************************************************)
\* arr.find(x => x.monthISO === monthISO): the first such entry, as <<>> or
\* <<entry>>.
RECURSIVE findMonth(_, _)
findMonth(arr, monthISO) ==
  IF arr = <<>> THEN <<>>
  ELSE IF Head(arr).monthISO = monthISO THEN <<Head(arr)>>
  ELSE findMonth(Tail(arr), monthISO)

\* arr.findIndex(x => x.monthISO === monthISO), 1-based, 0 for -1.
findIndexMonth(arr, monthISO) ==
  IF \E k \in 1..Len(arr) : arr[k].monthISO = monthISO
  THEN CHOOSE k \in 1..Len(arr) :
         /\ arr[k].monthISO = monthISO
         /\ \A j \in 1..(k - 1) : arr[j].monthISO # monthISO
  ELSE 0

\* compareISO(a, b)
compareISO(a, b) == IF StrLess(a, b) THEN -1 ELSE IF StrLess(b, a) THEN 1 ELSE 0

\* One insertion of a stable sort: x goes after every element that does not
\* compare greater than it.
RECURSIVE InsertDated(_, _)
InsertDated(sorted, x) ==
  IF sorted = <<>> THEN <<x>>
  ELSE IF compareISO(Head(sorted).monthISO, x.monthISO) <= 0
       THEN <<Head(sorted)>> \o InsertDated(Tail(sorted), x)
       ELSE <<x>> \o sorted

\* The copy without the sort.
MutSortDatedKeepsOrder(arr) == arr

\* [...arr].sort((a, b) => compareISO(a.monthISO, b.monthISO)); Array.sort
\* is stable.
RECURSIVE sortDated(_)
sortDated(arr) ==
  IF arr = <<>> THEN <<>>
  ELSE InsertDated(sortDated(SubSeq(arr, 1, Len(arr) - 1)), arr[Len(arr)])

RECURSIVE InsertMonth(_, _)
InsertMonth(sorted, m) ==
  IF sorted = <<>> THEN <<m>>
  ELSE IF compareISO(Head(sorted), m) <= 0
       THEN <<Head(sorted)>> \o InsertMonth(Tail(sorted), m)
       ELSE <<m>> \o sorted

RECURSIVE sortMonths(_)
sortMonths(arr) ==
  IF arr = <<>> THEN <<>>
  ELSE InsertMonth(sortMonths(SubSeq(arr, 1, Len(arr) - 1)), arr[Len(arr)])

\* Array.from(new Set(arr)): first occurrences, in order.
RECURSIVE uniqueMonths(_)
uniqueMonths(arr) ==
  IF arr = <<>> THEN <<>>
  ELSE LET init == SubSeq(arr, 1, Len(arr) - 1)
           last == arr[Len(arr)]
       IN  IF \E k \in 1..Len(init) : init[k] = last
           THEN uniqueMonths(init)
           ELSE uniqueMonths(init) \o <<last>>

(***************************************************************************)
(* Recurring Amount Resolver                                               *)
(***************************************************************************)
\* The loop of amountForMonth over the sorted changes, with its break.
RECURSIVE carryLoop(_, _, _)
carryLoop(changes, monthISO, best) ==
  IF changes = <<>> THEN best
  ELSE IF StrLeq(Head(changes).monthISO, monthISO)
       THEN carryLoop(Tail(changes), monthISO,
                      IF isFinite(Head(changes).amount) THEN Head(changes).amount ELSE best)
       ELSE best

\* The outcome of a call that raised a TypeError instead of returning.
TypeError == -999999998

\* A history entry stored as null.
NullEntry == [null |-> TRUE]

\* it[field] || []: the array, or the empty one for a missing field.
arrayOr(it, field) == IF field \in DOMAIN it THEN it[field] ELSE <<>>

\* The callback x => x.monthISO === monthISO of find reads a property of null:
\* a null entry stands before the first entry of the month.
findThrows(arr, monthISO) ==
  \E k \in DOMAIN arr :
    /\ arr[k] = NullEntry
    /\ \A j \in 1..(k - 1) : arr[j] # NullEntry /\ arr[j].monthISO # monthISO

\* The comparator of the sort, or the loop after a sort that compared
\* nothing, reads a property of null: the array holds a null entry.
sortThrows(arr) == \E k \in DOMAIN arr : arr[k] = NullEntry

\* The body of amountForMonth after the endMonth test.
resolveAmount(it, monthISO) ==
  LET base == IF "defaultAmount" \in DOMAIN it /\ isFinite(it.defaultAmount)
              THEN it.defaultAmount ELSE 0
  IN  IF it.behavior = "monthOnly"
      THEN IF findThrows(arrayOr(it, "overrides"), monthISO) THEN TypeError
           ELSE LET hit == findMonth(arrayOr(it, "overrides"), monthISO)
                IN  IF hit # <<>> /\ isFinite(hit[1].amount) THEN hit[1].amount ELSE base
      ELSE IF sortThrows(arrayOr(it, "changes")) THEN TypeError
           ELSE carryLoop(sortDated(arrayOr(it, "changes")), monthISO, base)

\* amountForMonth with monthISO >= it.endMonthISO for monthISO > it.endMonthISO:
\* the end month itself is cut off.
MutAmountForMonthCutsEndMonth(it, monthISO) ==
  IF /\ "endMonthISO" \in DOMAIN it
     /\ it.endMonthISO # <<>>
     /\ Len(it.endMonthISO) = 7
     /\ StrLeq(it.endMonthISO, monthISO)
  THEN 0
  ELSE resolveAmount(it, monthISO)

\* amountForMonth(it, monthISO): a number, or TypeError when the call raises.
amountForMonth(it, monthISO) ==
  IF /\ "endMonthISO" \in DOMAIN it
     /\ it.endMonthISO # <<>>
     /\ Len(it.endMonthISO) = 7
     /\ StrLess(it.endMonthISO, monthISO)
  THEN 0
  ELSE resolveAmount(it, monthISO)

(***************************************************************************)
(* Balance Aggregator                                                      *)
(***************************************************************************)
\* accountBalanceForMonth that carries the account's latest finite entry at
\* or before the month forward.
MutAccountBalanceCarriesForward(acct, monthISO) ==
  LET earlier == SelectSeq(sortDated(acct.balances),
                           LAMBDA b : StrLeq(b.monthISO, monthISO) /\ isFinite(b.amount))
  IN  IF earlier = <<>> THEN 0 ELSE earlier[Len(earlier)].amount

accountBalanceForMonth(acct, monthISO) ==
  LET hit == findMonth(acct.balances, monthISO)
  IN  IF hit # <<>> /\ isFinite(hit[1].amount) THEN hit[1].amount ELSE 0

RECURSIVE sumBalances(_, _)
sumBalances(accounts, monthISO) ==
  IF accounts = <<>> THEN 0
  ELSE sumBalances(SubSeq(accounts, 1, Len(accounts) - 1), monthISO)
       + accountBalanceForMonth(accounts[Len(accounts)], monthISO)

\* netWorthForMonth with the legacy fallback taken when the balances sum to
\* zero instead of when there is no account.
MutNetWorthForMonthLegacyOnZeroSum(plan, monthISO) ==
  IF sumBalances(plan.netWorthAccounts, monthISO) = 0 /\ isFinite(plan.startingNetWorth)
  THEN plan.startingNetWorth
  ELSE sumBalances(plan.netWorthAccounts, monthISO)

netWorthForMonth(plan, monthISO) ==
  IF plan.netWorthAccounts = <<>> /\ isFinite(plan.startingNetWorth)
  THEN plan.startingNetWorth
  ELSE sumBalances(plan.netWorthAccounts, monthISO)

hasNetWorthSnapshot(plan, monthISO) ==
  \E a \in 1..Len(plan.netWorthAccounts) :
    \E b \in 1..Len(plan.netWorthAccounts[a].balances) :
      plan.netWorthAccounts[a].balances[b].monthISO = monthISO

(***************************************************************************)
(* Snapshot Locator                                                        *)
(***************************************************************************)
RECURSIVE finiteMonthsOf(_)
finiteMonthsOf(balances) ==
  IF balances = <<>> THEN <<>>
  ELSE (IF isFinite(Head(balances).amount) THEN <<Head(balances).monthISO>> ELSE <<>>)
       \o finiteMonthsOf(Tail(balances))

\* The months pushed by the two nested loops over accounts and balances.
RECURSIVE snapshotMonths(_)
snapshotMonths(accounts) ==
  IF accounts = <<>> THEN <<>>
  ELSE finiteMonthsOf(Head(accounts).balances) \o snapshotMonths(Tail(accounts))

\* The loop that keeps the first month at or before monthISO instead of the
\* last one.
MutBestLoopKeepsFirst(months, monthISO, best) ==
  IF months # <<>> /\ StrLeq(Head(months), monthISO) THEN Head(months) ELSE best

\* for (const m of months) { if (m <= monthISO) best = m; else break; }
RECURSIVE bestLoop(_, _, _)
bestLoop(months, monthISO, best) ==
  IF months = <<>> THEN best
  ELSE IF StrLeq(Head(months), monthISO)
       THEN bestLoop(Tail(months), monthISO, Head(months))
       ELSE best

\* lastSnapshotAtOrBefore reading an aggregate of 0 as no snapshot.
MutLastSnapshotZeroIsAbsent(plan, monthISO) ==
  LET allMonths == snapshotMonths(plan.netWorthAccounts)
  IN  IF allMonths = <<>>
      THEN LET legacy == IF isFinite(plan.startingNetWorth) THEN plan.startingNetWorth ELSE 0
           IN  IF legacy # 0 THEN <<legacy>> ELSE <<>>
      ELSE LET best == bestLoop(sortMonths(uniqueMonths(allMonths)), monthISO, <<>>)
           IN  IF best = <<>> \/ netWorthForMonth(plan, best) = 0 THEN <<>>
               ELSE <<netWorthForMonth(plan, best)>>

lastSnapshotAtOrBefore(plan, monthISO) ==
  LET allMonths == snapshotMonths(plan.netWorthAccounts)
  IN  IF allMonths = <<>>
      THEN LET legacy == IF isFinite(plan.startingNetWorth) THEN plan.startingNetWorth ELSE 0
           IN  IF legacy # 0 THEN <<legacy>> ELSE <<>>
      ELSE LET best == bestLoop(sortMonths(uniqueMonths(allMonths)), monthISO, <<>>)
           IN  IF best = <<>> THEN <<>> ELSE <<netWorthForMonth(plan, best)>>

latestNetWorthSnapshotMonth(plan) ==
  LET months == sortMonths(snapshotMonths(plan.netWorthAccounts))
  IN  IF months = <<>> THEN <<>> ELSE months[Len(months)]

\* for (const m of uniq) { if (m <= targetMonthISO) best = m; else break; }
RECURSIVE bestMonthLoop(_, _, _)
bestMonthLoop(uniq, targetMonthISO, best) ==
  IF uniq = <<>> THEN best
  ELSE IF StrLeq(Head(uniq), targetMonthISO)
       THEN bestMonthLoop(Tail(uniq), targetMonthISO, Head(uniq))
       ELSE best

\* The locator with m < targetMonthISO for m <= targetMonthISO.
MutSnapshotMonthStrictlyBefore(plan, targetMonthISO) ==
  LET months == snapshotMonths(plan.netWorthAccounts)
      uniq == sortMonths(uniqueMonths(months))
      earlier == SelectSeq(uniq, LAMBDA m : StrLess(m, targetMonthISO))
  IN  IF earlier = <<>> THEN <<>> ELSE earlier[Len(earlier)]

snapshotMonthAtOrBefore(plan, targetMonthISO) ==
  LET months == snapshotMonths(plan.netWorthAccounts)
  IN  IF months = <<>> THEN <<>>
      ELSE bestMonthLoop(sortMonths(uniqueMonths(months)), targetMonthISO, <<>>)

(***************************************************************************)
(* As-Of Query                                                             *)
(***************************************************************************)
NullAsOf == [source |-> "null"]

\* The query with the legacy scalar consulted before the snapshots.
MutNetWorthAsOfLegacyFirst(plan, targetMonthISO) ==
  LET snapMonth == snapshotMonthAtOrBefore(plan, targetMonthISO)
      legacy == IF isFinite(plan.startingNetWorth) THEN plan.startingNetWorth ELSE 0
  IN  IF legacy # 0
      THEN [monthISO |-> targetMonthISO, netWorth |-> legacy, source |-> "legacy"]
      ELSE IF snapMonth # <<>>
      THEN [monthISO |-> snapMonth, netWorth |-> netWorthForMonth(plan, snapMonth),
            source |-> "snapshot"]
      ELSE NullAsOf

netWorthAsOf(plan, targetMonthISO) ==
  LET snapMonth == snapshotMonthAtOrBefore(plan, targetMonthISO)
      legacy == IF isFinite(plan.startingNetWorth) THEN plan.startingNetWorth ELSE 0
  IN  IF snapMonth # <<>>
      THEN [monthISO |-> snapMonth, netWorth |-> netWorthForMonth(plan, snapMonth),
            source |-> "snapshot"]
      ELSE IF legacy # 0
      THEN [monthISO |-> targetMonthISO, netWorth |-> legacy, source |-> "legacy"]
      ELSE NullAsOf

(***************************************************************************)
(* Series Builder                                                          *)
(***************************************************************************)
\* const months = 12 * 50
months == 600

\* annualPct / 100 / 12 is a fraction of 1200.
RateDenominator == 1200

\* x / d rounded to the nearest integer (halves up), d > 0.
RoundDiv(x, d) ==
  LET q == x \div d
      r == x % d
  IN  IF 2 * r >= d THEN q + 1 ELSE q

\* The product with the rate taken per cent but not per month: annualPct / 100
\* spread over 120 months instead of 12.
MutCompoundTenthRate(nw, annualPct) == nw + RoundDiv(nw * annualPct, 12000)

\* nw * (1 + monthlyR) with monthlyR = annualPct / 100 / 12.  Net worth is
\* kept in whole currency units: the product is exact whenever it is a whole
\* number and is rounded to the nearest unit otherwise.
compound(nw, annualPct) == nw + RoundDiv(nw * annualPct, RateDenominator)

\* items.reduce((s, it) => s + amountForMonth(it, monthISO), 0)
RECURSIVE sumRecurring(_, _)
sumRecurring(items, monthISO) ==
  IF items = <<>> THEN 0
  ELSE sumRecurring(SubSeq(items, 1, Len(items) - 1), monthISO)
       + amountForMonth(items[Len(items)], monthISO)

\* items.filter(x => x.monthISO === monthISO)
\*      .reduce((s, x) => s + (Number.isFinite(x.amount) ? x.amount : 0), 0)
RECURSIVE sumOneTime(_, _)
sumOneTime(items, monthISO) ==
  IF items = <<>> THEN 0
  ELSE LET x == items[Len(items)]
       IN  sumOneTime(SubSeq(items, 1, Len(items) - 1), monthISO)
           + (IF x.monthISO = monthISO /\ isFinite(x.amount) THEN x.amount ELSE 0)

netCashFlow(plan, monthISO) ==
  LET inc == sumRecurring(plan.income, monthISO)
      exp == sumRecurring(plan.expenses, monthISO)
      oneInc == sumOneTime(plan.oneTimeIncome, monthISO)
      oneExp == sumOneTime(plan.oneTimeExpenses, monthISO)
  IN  inc + oneInc - (exp + oneExp)

\* plan.startMonthISO || '2026-01'
startOf(plan) == IF plan.startMonthISO = <<>> THEN MK(2026, 1) ELSE plan.startMonthISO

\* plan.netWorthMode || 'snapshot'
modeOf(plan) == IF plan.netWorthMode = "" THEN "snapshot" ELSE plan.netWorthMode

annualPctOf(plan) == IF isFinite(plan.expectedReturnPct) THEN plan.expectedReturnPct ELSE 0

legacyStartOf(plan) == IF isFinite(plan.startingNetWorth) THEN plan.startingNetWorth ELSE 0

\* x ?? d for an optional number.
orElse(x, d) == IF x = <<>> THEN d ELSE x[1]

\* The baseline selection with snapshot mode falling back to the legacy
\* scalar, as hybrid mode does.
MutBaselineSnapshotFallsBackToLegacy(plan) ==
  LET start == startOf(plan)
      mode == modeOf(plan)
  IN  IF mode = "snapshot" \/ mode = "hybrid"
      THEN orElse(lastSnapshotAtOrBefore(plan, start), legacyStartOf(plan))
      ELSE IF hasNetWorthSnapshot(plan, start) THEN netWorthForMonth(plan, start)
      ELSE legacyStartOf(plan)

\* The baseline selection with hybrid mode falling back to 0, as snapshot
\* mode does.
MutBaselineHybridFallsBackToZero(plan) ==
  LET start == startOf(plan)
      mode == modeOf(plan)
  IN  IF mode = "snapshot" \/ mode = "hybrid"
      THEN orElse(lastSnapshotAtOrBefore(plan, start), 0)
      ELSE IF hasNetWorthSnapshot(plan, start) THEN netWorthForMonth(plan, start)
      ELSE legacyStartOf(plan)

\* The baseline selection with projection mode carrying the last snapshot
\* at or before the start month, as hybrid mode does.
MutBaselineProjectionCarriesSnapshot(plan) ==
  LET start == startOf(plan)
      mode == modeOf(plan)
  IN  IF mode = "snapshot" THEN orElse(lastSnapshotAtOrBefore(plan, start), 0)
      ELSE orElse(lastSnapshotAtOrBefore(plan, start), legacyStartOf(plan))

\* The baseline selection: the initial value of nw.
baseline(plan) ==
  LET start == startOf(plan)
      mode == modeOf(plan)
  IN  IF mode = "snapshot" THEN orElse(lastSnapshotAtOrBefore(plan, start), 0)
      ELSE IF mode = "hybrid"
      THEN orElse(lastSnapshotAtOrBefore(plan, start), legacyStartOf(plan))
      ELSE IF hasNetWorthSnapshot(plan, start) THEN netWorthForMonth(plan, start)
      ELSE legacyStartOf(plan)

\* The loop body without the hybrid fix: an anchor month sets nw and the
\* modelled return and cash flow are then applied inside that month.
MutLoopBodyCompoundsAnchor(plan, startY, startM, nw, i) ==
  LET monthISO == monthKeyAt(startY, startM, i)
      mode == modeOf(plan)
      anchored == IF mode = "hybrid" /\ hasNetWorthSnapshot(plan, monthISO)
                  THEN netWorthForMonth(plan, monthISO) ELSE nw
  IN  IF mode = "snapshot"
      THEN orElse(lastSnapshotAtOrBefore(plan, monthISO), nw)
      ELSE compound(anchored, annualPctOf(plan)) + netCashFlow(plan, monthISO)

\* The loop body whose snapshot branch also adds the month's cash flow.
MutLoopBodySnapshotAddsCashFlow(plan, startY, startM, nw, i) ==
  LET monthISO == monthKeyAt(startY, startM, i)
      mode == modeOf(plan)
  IN  IF mode = "snapshot"
      THEN orElse(lastSnapshotAtOrBefore(plan, monthISO), nw) + netCashFlow(plan, monthISO)
      ELSE IF mode = "hybrid" /\ hasNetWorthSnapshot(plan, monthISO)
      THEN netWorthForMonth(plan, monthISO)
      ELSE compound(nw, annualPctOf(plan)) + netCashFlow(plan, monthISO)

\* The loop body with hybrid mode never re-anchoring: every month compounds
\* and adds the cash flow, as projection mode does.
MutLoopBodyHybridNeverAnchors(plan, startY, startM, nw, i) ==
  LET monthISO == monthKeyAt(startY, startM, i)
      mode == modeOf(plan)
  IN  IF mode = "snapshot"
      THEN orElse(lastSnapshotAtOrBefore(plan, monthISO), nw)
      ELSE compound(nw, annualPctOf(plan)) + netCashFlow(plan, monthISO)

\* The loop body with projection mode re-anchoring on a recorded month, as
\* hybrid mode does.
MutLoopBodyProjectionAnchors(plan, startY, startM, nw, i) ==
  LET monthISO == monthKeyAt(startY, startM, i)
      mode == modeOf(plan)
  IN  IF mode = "snapshot"
      THEN orElse(lastSnapshotAtOrBefore(plan, monthISO), nw)
      ELSE IF hasNetWorthSnapshot(plan, monthISO)
      THEN netWorthForMonth(plan, monthISO)
      ELSE compound(nw, annualPctOf(plan)) + netCashFlow(plan, monthISO)

\* One iteration of the loop: the value of nw after iteration i, given its
\* value before.
loopBody(plan, startY, startM, nw, i) ==
  LET monthISO == monthKeyAt(startY, startM, i)
      mode == modeOf(plan)
  IN  IF mode = "snapshot"
      THEN orElse(lastSnapshotAtOrBefore(plan, monthISO), nw)
      ELSE IF mode = "hybrid" /\ hasNetWorthSnapshot(plan, monthISO)
      THEN netWorthForMonth(plan, monthISO)
      ELSE compound(nw, annualPctOf(plan)) + netCashFlow(plan, monthISO)

\* Iterations lo..hi of the loop, from the value nw: the points pushed.  The
\* range is split in two halves run one after the other, which is the same
\* left-to-right iteration.
RECURSIVE runLoop(_, _, _, _, _, _)
runLoop(plan, startY, startM, nw, lo, hi) ==
  IF lo > hi THEN <<>>
  ELSE IF lo = hi
  THEN <<[monthIndex |-> lo, netWorth |-> loopBody(plan, startY, startM, nw, lo)]>>
  ELSE LET mid == (lo + hi) \div 2
           left == runLoop(plan, startY, startM, nw, lo, mid)
       IN  left \o runLoop(plan, startY, startM, left[Len(left)].netWorth, mid + 1, hi)

\* The loop with i < months for i <= months.
MutBuildSeriesStopsEarly(plan) ==
  LET start == startOf(plan)
  IN  runLoop(plan, startYOf(start), startMOf(start), baseline(plan), 0, months - 1)

buildNetWorthSeries(plan) ==
  LET start == startOf(plan)
  IN  runLoop(plan, startYOf(start), startMOf(start), baseline(plan), 0, months)

\* The month key buildNetWorthSeries evaluates at index i.
monthOfIndex(plan, i) ==
  LET start == startOf(plan) IN monthKeyAt(startYOf(start), startMOf(start), i)

(***************************************************************************)
(* Pages: what each page derives from the plan it loads                    *)
(***************************************************************************)
\* DashboardPage: asOf, the record behind the Net Worth KPI.
dashboardAsOf(plan) ==
  LET startMonth == startOf(plan)
      latestSnap == latestNetWorthSnapshotMonth(plan)
  IN  IF plan.netWorthMode = "projection" THEN netWorthAsOf(plan, startMonth)
      ELSE netWorthAsOf(plan, IF latestSnap = <<>> THEN startMonth ELSE latestSnap)

(***************************************************************************)
(* Stored documents                                                        *)
(*                                                                         *)
(* A plan is the record loadPlan returns.  currency, goalNetWorth and the  *)
(* ids and names of items and accounts are left out: the engine reads none *)
(* of them, and the pages address an item or an account by its position.   *)
(***************************************************************************)
\* The bounds of the documents the model starts from.
MaxAccounts == 2
MaxEntries == 2

DA(monthISO, amount) == [monthISO |-> monthISO, amount |-> amount]

Recurring(defaultAmount, behavior, changes, overrides, endMonthISO) ==
  [defaultAmount |-> defaultAmount, behavior |-> behavior, changes |-> changes,
   overrides |-> overrides, endMonthISO |-> endMonthISO]

Modes == {"snapshot", "projection", "hybrid"}

\* Balance entries a stored account may hold: an actual at the default start
\* month, a later one, and a later one whose amount is not a finite number.
BalanceEntries ==
  {DA(MK(2026, 1), 10000), DA(MK(2026, 6), 9000), DA(MK(2026, 6), NaN)}

RECURSIVE SeqsUpTo(_, _)
SeqsUpTo(S, n) ==
  IF n = 0 THEN {<<>>}
  ELSE LET shorter == SeqsUpTo(S, n - 1)
       IN  shorter \cup {Append(q, x) : q \in {r \in shorter : Len(r) = n - 1}, x \in S}

RECURSIVE TotalEntries(_)
TotalEntries(accounts) ==
  IF accounts = <<>> THEN 0
  ELSE Len(Head(accounts).balances) + TotalEntries(Tail(accounts))

\* Up to MaxAccounts accounts holding up to MaxEntries entries between them,
\* in any order and with repeated months.
AccountConfigs ==
  {c \in SeqsUpTo({[balances |-> h] : h \in SeqsUpTo(BalanceEntries, MaxEntries)},
                  MaxAccounts) : TotalEntries(c) <= MaxEntries}

\* The rest of a document: start month, legacy scalar, return and cash flows.
Settings ==
  { [startMonthISO |-> MK(2026, 1), startingNetWorth |-> 5000, expectedReturnPct |-> 0,
     income |-> <<>>, expenses |-> <<>>, oneTimeIncome |-> <<>>, oneTimeExpenses |-> <<>>],
    [startMonthISO |-> MK(2026, 1), startingNetWorth |-> 5000, expectedReturnPct |-> 12,
     income |-> <<Recurring(1000, "carryForward", <<>>, <<>>, <<>>)>>,
     expenses |-> <<>>, oneTimeIncome |-> <<>>, oneTimeExpenses |-> <<>>],
    [startMonthISO |-> MK(2026, 3), startingNetWorth |-> 0, expectedReturnPct |-> 12,
     income |-> <<Recurring(1000, "carryForward", <<DA(MK(2026, 8), 1500)>>, <<>>, <<>>)>>,
     expenses |-> <<Recurring(300, "monthOnly", <<>>, <<DA(MK(2026, 5), 700)>>, MK(2027, 12))>>,
     oneTimeIncome |-> <<DA(MK(2026, 4), 250)>>,
     oneTimeExpenses |-> <<DA(MK(2026, 6), 400), DA(MK(2026, 9), NaN)>>] }

PlanOf(setting, accounts, mode) ==
  [startMonthISO |-> setting.startMonthISO,
   startingNetWorth |-> setting.startingNetWorth,
   expectedReturnPct |-> setting.expectedReturnPct,
   income |-> setting.income, expenses |-> setting.expenses,
   oneTimeIncome |-> setting.oneTimeIncome, oneTimeExpenses |-> setting.oneTimeExpenses,
   netWorthAccounts |-> accounts, netWorthMode |-> mode]

\* Start months a stored document may hold besides well-formed ones: a
\* missing one, "abcd-ef", one whose month is 13, and "2026".
OddStartMonths ==
  {<<>>, <<97, 98, 99, 100, 45, 101, 102>>, MK(2026, 13), <<50, 48, 50, 54>>}

\* Accounts of the documents with odd start months and of the documents that
\* reach the end of the horizon.
EdgeAccounts ==
  { <<>>,
    <<[balances |-> <<DA(MK(2026, 1), 10000)>>]>>,
    <<[balances |-> <<DA(MK(2076, 1), 4000), DA(MK(2076, 2), 6000)>>]>>,
    <<[balances |-> <<DA(MK(2025, 12), 7000)>>], [balances |-> <<DA(MK(2076, 1), 0)>>]>> }

StoredPlans ==
  {PlanOf(st, c, m) : st \in Settings, c \in AccountConfigs, m \in Modes}
  \cup {PlanOf(st, c, m) : st \in Settings, c \in EdgeAccounts, m \in Modes}
  \cup {[PlanOf(st, c, m) EXCEPT !.startMonthISO = sm] :
          st \in {x \in Settings : x.expectedReturnPct = 12 /\ x.expenses = <<>>},
          c \in EdgeAccounts, m \in Modes \cup {"", "other"}, sm \in OddStartMonths}

\* Months typed into the Edit month field.
EditMonths == {MK(2025, 12), MK(2026, 1), MK(2026, 4), MK(2026, 6), MK(2076, 2), <<>>}

(***************************************************************************)
(* The application: a stored document and the page that shows it           *)
(***************************************************************************)
VARIABLES
  plan,          \* the plan document, as loadPlan returns it; under SpecLoad, before the
                 \* mount effect, what localStorage holds under STORAGE_KEY
  page,          \* "loading" (a page before its mount effect) | "dashboard" | "assumptions" | "expenses"
  editMonthISO,  \* the Edit month field of the page
  series,        \* DashboardPage: the memoised buildNetWorthSeries(plan); <<>> elsewhere
  asOf,          \* DashboardPage: the KPI's asOf; AssumptionsPage: netWorthAsOf(plan, editMonthISO)
  monthAmount,   \* ExpensesPage: amountForMonth(it, editMonthISO) of each expense; <<>> elsewhere
  windowMonths,  \* DashboardPage: the size of the chart window
  offset         \* DashboardPage: the position of the chart window's slider

vars == <<plan, page, editMonthISO, series, asOf, monthAmount, windowMonths, offset>>

\* useState(12)
InitialWindowMonths == 12

\* useState('2026-01')
InitialEditMonth == MK(2026, 1)

\* DashboardPage after its mount effect: setPlan(loadPlan()), then the
\* memoised series and the KPI's asOf.
OpenDashboard ==
  /\ page = "loading"
  /\ page' = "dashboard"
  /\ series' = buildNetWorthSeries(plan)
  /\ asOf' = dashboardAsOf(plan)
  /\ UNCHANGED <<plan, editMonthISO, monthAmount, windowMonths, offset>>

\* AssumptionsPage after its mount effect: setPlan(p),
\* setEditMonthISO(p.startMonthISO || '2026-01'); monthNetWorth is read off
\* netWorthAsOf(plan, editMonthISO).
OpenAssumptions ==
  /\ page = "loading"
  /\ page' = "assumptions"
  /\ editMonthISO' = startOf(plan)
  /\ asOf' = netWorthAsOf(plan, startOf(plan))
  /\ UNCHANGED <<plan, series, monthAmount, windowMonths, offset>>

\* AssumptionsPage: typing into the Edit month field.
SetEditMonth ==
  /\ page = "assumptions"
  /\ \E m \in EditMonths :
       /\ editMonthISO' = m
       /\ asOf' = netWorthAsOf(plan, m)
  /\ UNCHANGED <<plan, page, series, monthAmount, windowMonths, offset>>

\* Leaving a page: its state is dropped and the next page starts unmounted.
Navigate ==
  /\ page # "loading"
  /\ page' = "loading"
  /\ editMonthISO' = InitialEditMonth
  /\ series' = <<>>
  /\ asOf' = NullAsOf
  /\ monthAmount' = <<>>
  /\ windowMonths' = InitialWindowMonths
  /\ offset' = 0
  /\ UNCHANGED plan

Init ==
  /\ plan \in StoredPlans
  /\ page = "loading"
  /\ editMonthISO = InitialEditMonth
  /\ series = <<>>
  /\ asOf = NullAsOf
  /\ monthAmount = <<>>
  /\ windowMonths = InitialWindowMonths
  /\ offset = 0

Next == OpenDashboard \/ OpenAssumptions \/ SetEditMonth \/ Navigate

Spec == Init /\ [][Next]_vars

(***************************************************************************)
(* The Expenses page                                                       *)
(***************************************************************************)
\* The bound of a stored history of changes or overrides.
MaxChanges == 3

\* Entries a stored history may hold, in any order and with repeated months;
\* one of them has an amount that is not a finite number.
HistoryEntries ==
  {DA(MK(2026, 1), 100), DA(MK(2026, 3), 250), DA(MK(2026, 5), 100), DA(MK(2026, 3), NaN)}

\* The history a stored item holds in the field its behavior does not read.
OtherHistory == <<DA(MK(2026, 3), 999)>>

StoredEndMonths == {<<>>, MK(2026, 3)}

StoredExpenses ==
  {Recurring(50, "carryForward", h, OtherHistory, e) :
     h \in SeqsUpTo(HistoryEntries, MaxChanges), e \in StoredEndMonths}
  \cup {Recurring(50, "monthOnly", OtherHistory, h, e) :
          h \in SeqsUpTo(HistoryEntries, MaxChanges), e \in StoredEndMonths}

\* Documents whose expenses are one stored item.
ExpensePlans ==
  LET st == CHOOSE x \in Settings : x.expectedReturnPct = 0
  IN  {[PlanOf(st, <<>>, "hybrid") EXCEPT !.expenses = <<it>>] : it \in StoredExpenses}

\* Months typed into the Edit month field of the Expenses page.
ExpenseEditMonths == {MK(2026, 1), MK(2026, 3), MK(2026, 4)}

\* What Number(cleaned) makes of the text typed into the amount field: a
\* number, or NaN for text that is not a number.
TypedAmounts == {NaN, 400}

\* The options of the End month select: No end, or a month of the plan.
EndMonthOptions == {<<>>, MK(2026, 3)}

\* parseMoneyLoose after Number(cleaned): Number.isFinite(n) ? n : 0
parseMoneyLoose(n) == IF isFinite(n) THEN n ELSE 0

\* upsertDated with next.push for every write: the entry of the month is
\* not replaced.
MutUpsertDatedAppends(arr, monthISO, amount) ==
  sortDated(Append(arr, DA(monthISO, amount)))

\* upsertDated without its trailing sort.
MutUpsertDatedNoSort(arr, monthISO, amount) ==
  LET i == findIndexMonth(arr, monthISO)
  IN  IF i > 0 THEN [arr EXCEPT ![i] = DA(monthISO, amount)]
      ELSE Append(arr, DA(monthISO, amount))

\* upsertDated(arr, monthISO, amount)
upsertDated(arr, monthISO, amount) ==
  LET i == findIndexMonth(arr, monthISO)
      next == IF i > 0 THEN [arr EXCEPT ![i] = DA(monthISO, amount)]
              ELSE Append(arr, DA(monthISO, amount))
  IN  sortDated(next)

\* const monthAmount = amountForMonth(it, editMonthISO), for each expense.
monthAmountsOf(p, m) == [k \in DOMAIN p.expenses |-> amountForMonth(p.expenses[k], m)]

\* setForMonth(it, amount) for the item at position k, with updateItem.
setForMonth(p, k, m, amount) ==
  LET it == p.expenses[k]
  IN  IF it.behavior = "carryForward"
      THEN [p EXCEPT !.expenses[k].changes = upsertDated(it.changes, m, amount)]
      ELSE [p EXCEPT !.expenses[k].overrides = upsertDated(it.overrides, m, amount)]

\* ExpensesPage after its mount effect.
OpenExpenses ==
  /\ page = "loading"
  /\ page' = "expenses"
  /\ editMonthISO' = startOf(plan)
  /\ monthAmount' = monthAmountsOf(plan, startOf(plan))
  /\ UNCHANGED <<plan, series, asOf, windowMonths, offset>>

\* The last render of the Expenses page returned: no amountForMonth raised.
Rendered == \A k \in DOMAIN monthAmount : monthAmount[k] # TypeError

\* ExpensesPage: typing into the Edit month field.
SetExpenseEditMonth ==
  /\ page = "expenses" /\ Rendered
  /\ \E m \in ExpenseEditMonths :
       /\ editMonthISO' = m
       /\ monthAmount' = monthAmountsOf(plan, m)
  /\ UNCHANGED <<plan, page, series, asOf, windowMonths, offset>>

\* ExpensesPage: leaving the Set amount field of the item at position k.
\* Histories stay within MaxChanges entries.
SetAmountForMonth ==
  /\ page = "expenses" /\ Rendered
  /\ \E k \in DOMAIN plan.expenses, typed \in TypedAmounts :
       LET v == parseMoneyLoose(typed)
           next == IF isFinite(v) THEN setForMonth(plan, k, editMonthISO, v) ELSE plan
       IN  /\ Len(next.expenses[k].changes) <= MaxChanges
           /\ Len(next.expenses[k].overrides) <= MaxChanges
           /\ plan' = next
           /\ monthAmount' = monthAmountsOf(next, editMonthISO)
  /\ UNCHANGED <<page, editMonthISO, series, asOf, windowMonths, offset>>

\* ExpensesPage: the Behavior select of the item at position k; the history
\* of the other behavior is emptied.
SetBehavior ==
  /\ page = "expenses" /\ Rendered
  /\ \E k \in DOMAIN plan.expenses, behavior \in {"carryForward", "monthOnly"} :
       LET it == plan.expenses[k]
           next == [plan EXCEPT !.expenses[k] =
                      [it EXCEPT !.behavior = behavior,
                                 !.changes = IF behavior = "carryForward" THEN it.changes ELSE <<>>,
                                 !.overrides = IF behavior = "monthOnly" THEN it.overrides ELSE <<>>]]
       IN  /\ plan' = next
           /\ monthAmount' = monthAmountsOf(next, editMonthISO)
  /\ UNCHANGED <<page, editMonthISO, series, asOf, windowMonths, offset>>

\* ExpensesPage: the End month select of the item at position k.
SetEndMonth ==
  /\ page = "expenses" /\ Rendered
  /\ \E k \in DOMAIN plan.expenses, e \in EndMonthOptions :
       LET next == [plan EXCEPT !.expenses[k].endMonthISO = e]
       IN  /\ plan' = next
           /\ monthAmount' = monthAmountsOf(next, editMonthISO)
  /\ UNCHANGED <<page, editMonthISO, series, asOf, windowMonths, offset>>

InitExpenses ==
  /\ plan \in ExpensePlans
  /\ page = "loading"
  /\ editMonthISO = InitialEditMonth
  /\ series = <<>>
  /\ asOf = NullAsOf
  /\ monthAmount = <<>>
  /\ windowMonths = InitialWindowMonths
  /\ offset = 0

NextExpenses ==
  \/ OpenExpenses \/ SetExpenseEditMonth \/ SetAmountForMonth
  \/ SetBehavior \/ SetEndMonth \/ Navigate

SpecExpenses == InitExpenses /\ [][NextExpenses]_vars

(***************************************************************************)
(* Editing histories on the Assumptions and Expenses pages                 *)
(***************************************************************************)
\* The bound of an account's balance history.
MaxBalances == 2

\* setAccountForMonth(accountId, amount) for the account at position k.
setAccountForMonth(p, k, m, amount) ==
  [p EXCEPT !.netWorthAccounts[k].balances =
              upsertDated(p.netWorthAccounts[k].balances, m, amount)]

\* AssumptionsPage: leaving the Balance field of the account at position k;
\* the field is disabled in projection mode.  Histories stay within
\* MaxBalances entries.
SetAccountForMonth ==
  /\ page = "assumptions"
  /\ plan.netWorthMode # "projection"
  /\ \E k \in DOMAIN plan.netWorthAccounts, typed \in TypedAmounts :
       LET next == setAccountForMonth(plan, k, editMonthISO, parseMoneyLoose(typed))
       IN  /\ Len(next.netWorthAccounts[k].balances) <= MaxBalances
           /\ plan' = next
           /\ asOf' = netWorthAsOf(next, editMonthISO)
  /\ UNCHANGED <<page, editMonthISO, series, monthAmount, windowMonths, offset>>

\* Documents of one account and one expense whose histories hold at most one
\* entry per month, in ascending order.
KeyedPlans ==
  LET st == CHOOSE x \in Settings : x.expectedReturnPct = 0
  IN  {[PlanOf(st, <<[balances |-> b]>>, m) EXCEPT !.expenses = <<it>>] :
         b \in {<<>>, <<DA(MK(2026, 1), 10000), DA(MK(2026, 6), 9000)>>},
         m \in {"hybrid", "projection"},
         it \in {Recurring(50, "carryForward", <<DA(MK(2026, 3), 250)>>, <<>>, <<>>),
                 Recurring(50, "monthOnly", <<>>, <<>>, <<>>)}}

InitEdits ==
  /\ plan \in KeyedPlans
  /\ page = "loading"
  /\ editMonthISO = InitialEditMonth
  /\ series = <<>>
  /\ asOf = NullAsOf
  /\ monthAmount = <<>>
  /\ windowMonths = InitialWindowMonths
  /\ offset = 0

NextEdits ==
  \/ OpenAssumptions \/ SetEditMonth \/ SetAccountForMonth
  \/ OpenExpenses \/ SetExpenseEditMonth \/ SetAmountForMonth \/ Navigate

SpecEdits == InitEdits /\ [][NextEdits]_vars

(***************************************************************************)
(* loadPlan over what localStorage holds                                   *)
(***************************************************************************)
\* A JSON value is a record tagged with its type: null, number, string,
\* array (elements in v) or object (fields in o); undefined is what reading
\* a missing property gives.
Undefined == [t |-> "undefined"]
JsonNull == [t |-> "null"]
JsonNumber == [t |-> "number"]
JsonString(str) == [t |-> "string", s |-> str]
JsonArray(elements) == [t |-> "array", v |-> elements]
JsonObject(fields) == [t |-> "object", o |-> fields]

\* An object without properties.
EmptyObject == <<>>

DEFAULT_PLAN ==
  [startMonthISO |-> MK(2026, 1), startingNetWorth |-> 0, expectedReturnPct |-> 0,
   income |-> <<>>, expenses |-> <<>>, oneTimeIncome |-> <<>>, oneTimeExpenses |-> <<>>,
   netWorthAccounts |-> <<[balances |-> <<>>], [balances |-> <<>>],
                          [balances |-> <<>>], [balances |-> <<>>]>>,
   netWorthMode |-> "hybrid"]

\* parsed.field, and a?.field for a value that may be null or undefined:
\* undefined unless the value is an object that has the property.
prop(value, field) ==
  IF value.t = "object" /\ field \in DOMAIN value.o THEN value.o[field] ELSE Undefined

\* Array.isArray(v) ? v : []
ensureArray(v) == IF v.t = "array" THEN v.v ELSE <<>>

\* ensureNetWorthAccounts(v); the id and the name of an account are left out.
ensureNetWorthAccounts(v) ==
  LET arr == ensureArray(v)
  IN  [k \in DOMAIN arr |-> [balances |-> ensureArray(prop(arr[k], "balances"))]]

\* normalizeMode that keeps every stored string.
MutNormalizeModeKeepsStrings(v) == IF v.t = "string" THEN v.s ELSE "hybrid"

\* normalizeMode(v)
normalizeMode(v) ==
  IF v.t = "string" /\ v.s \in {"snapshot", "projection", "hybrid"} THEN v.s ELSE "hybrid"

\* A scalar field of { ...DEFAULT_PLAN, ...parsed }.
spread(parsed, field) ==
  IF parsed.t = "object" /\ field \in DOMAIN parsed.o THEN parsed.o[field]
  ELSE DEFAULT_PLAN[field]

\* loadPlan() in the browser, over the stored content: absent (getItem gives
\* null), the empty string, text JSON.parse throws on, or a parsed value.
loadPlan(raw) ==
  IF raw.kind \in {"absent", "empty", "unparsable"} THEN DEFAULT_PLAN
  ELSE LET parsed == IF raw.value.t = "null" THEN JsonObject(EmptyObject) ELSE raw.value
       IN  [startMonthISO |-> spread(parsed, "startMonthISO"),
            startingNetWorth |-> spread(parsed, "startingNetWorth"),
            expectedReturnPct |-> spread(parsed, "expectedReturnPct"),
            income |-> ensureArray(prop(parsed, "income")),
            expenses |-> ensureArray(prop(parsed, "expenses")),
            oneTimeIncome |-> ensureArray(prop(parsed, "oneTimeIncome")),
            oneTimeExpenses |-> ensureArray(prop(parsed, "oneTimeExpenses")),
            netWorthAccounts |-> ensureNetWorthAccounts(prop(parsed, "netWorthAccounts")),
            netWorthMode |-> normalizeMode(prop(parsed, "netWorthMode"))]

\* What a stored object holds in income: nothing, null, a string, an array.
StoredIncomes ==
  {EmptyObject, [income |-> JsonNull], [income |-> JsonString("x")],
   [income |-> JsonArray(<<Recurring(1000, "carryForward", <<>>, <<>>, <<>>)>>)]}

\* In netWorthAccounts: nothing, an object, or an array of null, an account,
\* an account without balances and an account whose balances is a string.
StoredAccounts ==
  {EmptyObject, [netWorthAccounts |-> JsonObject(EmptyObject)],
   [netWorthAccounts |->
      JsonArray(<<JsonNull,
                  JsonObject([balances |-> JsonArray(<<DA(MK(2026, 1), 10000)>>)]),
                  JsonObject(EmptyObject),
                  JsonObject([balances |-> JsonString("x")])>>)]}

\* In netWorthMode: nothing, null, a number, or a string.
StoredModes ==
  {EmptyObject, [netWorthMode |-> JsonNull], [netWorthMode |-> JsonNumber]}
  \cup {[netWorthMode |-> JsonString(m)] : m \in Modes \cup {"other", ""}}

\* In the other fields: nothing; numbers where arrays are expected, next to
\* a start month and a legacy amount; or arrays.
StoredRest ==
  {EmptyObject,
   [startMonthISO |-> MK(2026, 3), startingNetWorth |-> 4242,
    expenses |-> JsonNumber, oneTimeIncome |-> JsonNumber, oneTimeExpenses |-> JsonNumber],
   [expectedReturnPct |-> 12,
    expenses |-> JsonArray(<<Recurring(300, "monthOnly", <<>>, <<>>, <<>>)>>),
    oneTimeIncome |-> JsonArray(<<DA(MK(2026, 4), 250)>>),
    oneTimeExpenses |-> JsonArray(<<>>)]}

\* What localStorage may hold under STORAGE_KEY.
StoredContents ==
  {[kind |-> k] : k \in {"absent", "empty", "unparsable"}}
  \cup {[kind |-> "parsed", value |-> v] :
          v \in {JsonNull, JsonNumber, JsonString("x"), JsonArray(<<>>)}}
  \cup {[kind |-> "parsed", value |-> JsonObject(i @@ a @@ m @@ r)] :
          i \in StoredIncomes, a \in StoredAccounts, m \in StoredModes, r \in StoredRest}

\* AssumptionsPage mounting over a stored content: p = loadPlan(),
\* setPlan(p), setEditMonthISO(p.startMonthISO || '2026-01').
LoadPlan ==
  /\ page = "loading"
  /\ "kind" \in DOMAIN plan
  /\ LET p == loadPlan(plan)
     IN  /\ plan' = p
         /\ editMonthISO' = startOf(p)
         /\ asOf' = netWorthAsOf(p, startOf(p))
  /\ page' = "assumptions"
  /\ UNCHANGED <<series, monthAmount, windowMonths, offset>>

InitLoad ==
  /\ plan \in StoredContents
  /\ page = "loading"
  /\ editMonthISO = InitialEditMonth
  /\ series = <<>>
  /\ asOf = NullAsOf
  /\ monthAmount = <<>>
  /\ windowMonths = InitialWindowMonths
  /\ offset = 0

NextLoad == LoadPlan \/ SetEditMonth

SpecLoad == InitLoad /\ [][NextLoad]_vars

(***************************************************************************)
(* The Dashboard over documents with balances before, at and after the     *)
(* start month                                                             *)
(***************************************************************************)
\* Accounts whose histories hold one entry per month: none; an account
\* without balances; balances at 2026-01, before it, after it, and around
\* 2026-03; two accounts; entries whose amount is not a finite number; and
\* balances of 0.
SeriesAccounts ==
  { <<>>,
    <<[balances |-> <<>>]>>,
    <<[balances |-> <<DA(MK(2026, 1), 10000)>>]>>,
    <<[balances |-> <<DA(MK(2025, 11), 7000)>>]>>,
    <<[balances |-> <<DA(MK(2026, 8), 9000)>>]>>,
    <<[balances |-> <<DA(MK(2025, 11), 7000), DA(MK(2026, 3), 8000), DA(MK(2026, 8), 9000)>>]>>,
    <<[balances |-> <<DA(MK(2026, 1), 10000), DA(MK(2026, 6), 9000)>>],
      [balances |-> <<DA(MK(2026, 3), 500)>>]>>,
    <<[balances |-> <<DA(MK(2025, 11), 7000), DA(MK(2026, 1), NaN), DA(MK(2026, 3), NaN)>>]>>,
    <<[balances |-> <<DA(MK(2025, 10), 6000), DA(MK(2025, 11), NaN)>>]>>,
    <<[balances |-> <<DA(MK(2026, 1), 10000), DA(MK(2026, 6), 0)>>]>>,
    <<[balances |-> <<DA(MK(2025, 11), 0)>>]>> }

SeriesPlans == {PlanOf(st, c, m) : st \in Settings, c \in SeriesAccounts, m \in Modes}

InitSeries ==
  /\ plan \in SeriesPlans
  /\ page = "loading"
  /\ editMonthISO = InitialEditMonth
  /\ series = <<>>
  /\ asOf = NullAsOf
  /\ monthAmount = <<>>
  /\ windowMonths = InitialWindowMonths
  /\ offset = 0

NextSeries == OpenDashboard \/ Navigate

SpecSeries == InitSeries /\ [][NextSeries]_vars

(***************************************************************************)
(* The Dashboard over documents with start months of every century         *)
(***************************************************************************)
\* The key YYYY-MM of a year 0..9999 and a month 1..12, the year padded to
\* four digits.
YearMonth(y, m) ==
  <<Zero + (y \div 1000), Zero + ((y \div 100) % 10), Zero + ((y \div 10) % 10), Zero + (y % 10)>>
  \o <<Minus>> \o PadStart2(NatText(m))

\* Years of the start months: before 1000, ordinary ones, and the last ones
\* whose horizon of 600 months stays below and goes beyond 9999.
StartYears == {950, 1999, 2026, 9949, 9950}

StartMonthPlans ==
  LET st == CHOOSE x \in Settings : x.expectedReturnPct = 0
  IN  {[PlanOf(st, <<[balances |-> <<DA(YearMonth(y, 6), 10000)>>]>>, "hybrid")
          EXCEPT !.startMonthISO = YearMonth(y, m)] : y \in StartYears, m \in 1..12}

InitMonths ==
  /\ plan \in StartMonthPlans
  /\ page = "loading"
  /\ editMonthISO = InitialEditMonth
  /\ series = <<>>
  /\ asOf = NullAsOf
  /\ monthAmount = <<>>
  /\ windowMonths = InitialWindowMonths
  /\ offset = 0

NextMonths == OpenDashboard \/ Navigate

SpecMonths == InitMonths /\ [][NextMonths]_vars

(***************************************************************************)
(* Assumptions page: a Balance field left as it was shown                  *)
(*                                                                         *)
(* The field shows money(acctAsOf, cur); on blur its text goes through     *)
(* parseMoneyLoose into setAccountForMonth.  The currency is USD, the      *)
(* currency of DEFAULT_PLAN.                                               *)
(***************************************************************************)
\* Code units: ' ' is 32, '$' is 36, '%' is 37, ',' is 44.
Space == 32
Dollar == 36
Percent == 37
Comma == 44

\* The digits of an en-US number, grouped in threes from the right.
RECURSIVE Grouped(_)
Grouped(d) ==
  IF Len(d) <= 3 THEN d
  ELSE Grouped(SubSeq(d, 1, Len(d) - 3)) \o <<Comma>> \o SubSeq(d, Len(d) - 2, Len(d))

\* money(n, 'USD') of an integer or NaN: Intl.NumberFormat('en-US', currency)
\* of Number.isFinite(n) ? n : 0.
money(n) ==
  LET v == IF isFinite(n) THEN n ELSE 0
  IN  IF v < 0 THEN <<Minus, Dollar>> \o Grouped(NatText(0 - v))
      ELSE <<Dollar>> \o Grouped(NatText(v))

\* String(v).replace(/[$,%\s,]+/g, '')
cleaned(v) == SelectSeq(v, LAMBDA c : c \notin {Space, Dollar, Percent, Comma})

\* acctAsOf: netWorthAsOf({...plan, netWorthAccounts: [a]}, editMonthISO)
\* ?.netWorth ?? 0 for the account at position k.
acctAsOf(p, k, m) ==
  LET a == netWorthAsOf([p EXCEPT !.netWorthAccounts = <<p.netWorthAccounts[k]>>], m)
  IN  IF a = NullAsOf THEN 0 ELSE a.netWorth

\* AssumptionsPage: leaving the Balance field of the account at position k
\* with the text it was rendered with.  Histories stay within MaxBalances
\* entries.
BlurBalance ==
  /\ page = "assumptions"
  /\ plan.netWorthMode # "projection"
  /\ \E k \in DOMAIN plan.netWorthAccounts :
       LET value == money(acctAsOf(plan, k, editMonthISO))
           next == setAccountForMonth(plan, k, editMonthISO,
                                      parseMoneyLoose(NumberOf(cleaned(value))))
       IN  /\ Len(next.netWorthAccounts[k].balances) <= MaxBalances
           /\ plan' = next
           /\ asOf' = netWorthAsOf(next, editMonthISO)
  /\ UNCHANGED <<page, editMonthISO, series, monthAmount, windowMonths, offset>>

\* Documents of one or two accounts with at most one balance each, with
\* legacy scalar 5000 or 0.
BlurPlans ==
  {PlanOf(st, acc, m) :
     st \in {x \in Settings : x.income = <<>> \/ x.startingNetWorth = 0},
     acc \in {<<[balances |-> <<>>]>>,
              <<[balances |-> <<>>], [balances |-> <<>>]>>,
              <<[balances |-> <<DA(MK(2026, 1), 10000)>>], [balances |-> <<>>]>>,
              <<[balances |-> <<DA(MK(2026, 1), 10000)>>],
                [balances |-> <<DA(MK(2026, 1), 500)>>]>>},
     m \in {"hybrid", "projection"}}

InitBlur ==
  /\ plan \in BlurPlans
  /\ page = "loading"
  /\ editMonthISO = InitialEditMonth
  /\ series = <<>>
  /\ asOf = NullAsOf
  /\ monthAmount = <<>>
  /\ windowMonths = InitialWindowMonths
  /\ offset = 0

NextBlur == OpenAssumptions \/ SetEditMonth \/ BlurBalance \/ Navigate

SpecBlur == InitBlur /\ [][NextBlur]_vars

(***************************************************************************)
(* Dashboard: the chart window                                             *)
(***************************************************************************)
\* The buttons of the window size.
WindowSizes == {6, 12, 24, 60}

\* Positions the slider is dragged to, where the range of the input allows.
SliderPositions == {0, 1, 6, 300, 540, 541, 576, 588, 594}

\* maxIdx: series.length ? series[series.length - 1].monthIndex : 0
maxIdx(s) == IF Len(s) > 0 THEN s[Len(s)].monthIndex ELSE 0

\* maxOffset without the window size: the slider reaches the last point.
MutMaxOffsetIgnoresWindow(s, w) == maxIdx(s)

\* maxOffset: Math.max(0, maxIdx - windowMonths)
maxOffset(s, w) == IF maxIdx(s) - w > 0 THEN maxIdx(s) - w ELSE 0

\* effOffset: Math.min(offset, maxOffset)
effOffset(s, w, o) == IF o < maxOffset(s, w) THEN o ELSE maxOffset(s, w)

\* windowed: the points of the window, re-indexed from 0.
windowed(s, w, o) ==
  LET e == effOffset(s, w, o)
      inside == SelectSeq(s, LAMBDA pt : pt.monthIndex >= e /\ pt.monthIndex <= e + w)
  IN  [k \in DOMAIN inside |-> [inside[k] EXCEPT !.monthIndex = @ - e]]

\* DashboardPage: a window size button, then the effect on maxOffset:
\* if (offset > maxOffset) setOffset(maxOffset).
SetWindowMonths ==
  /\ page = "dashboard"
  /\ \E m \in WindowSizes :
       /\ windowMonths' = m
       /\ offset' = IF offset > maxOffset(series, m) THEN maxOffset(series, m) ELSE offset
  /\ UNCHANGED <<plan, page, editMonthISO, series, asOf, monthAmount>>

\* DashboardPage: the range input, min 0 and max maxOffset:
\* setOffset(Number(e.target.value)).
SetOffset ==
  /\ page = "dashboard"
  /\ \E v \in SliderPositions :
       /\ v <= maxOffset(series, windowMonths)
       /\ offset' = v
  /\ UNCHANGED <<plan, page, editMonthISO, series, asOf, monthAmount, windowMonths>>

\* Documents whose series grows month by month, in each mode.
WindowPlans ==
  {PlanOf(st, <<[balances |-> <<DA(MK(2026, 1), 10000), DA(MK(2026, 6), 9000)>>]>>, m) :
     st \in {x \in Settings : x.expectedReturnPct # 0}, m \in Modes}

InitWindow ==
  /\ plan \in WindowPlans
  /\ page = "loading"
  /\ editMonthISO = InitialEditMonth
  /\ series = <<>>
  /\ asOf = NullAsOf
  /\ monthAmount = <<>>
  /\ windowMonths = InitialWindowMonths
  /\ offset = 0

NextWindow == OpenDashboard \/ SetWindowMonths \/ SetOffset \/ Navigate

SpecWindow == InitWindow /\ [][NextWindow]_vars

(***************************************************************************)
(* Stored recurring items as loadPlan hands them over: ensureArray keeps   *)
(* whatever the stored arrays hold                                         *)
(***************************************************************************)
\* The bound of a stored history with malformed entries.
MaxRawEntries == 2

\* Entries of such a history: two amounts for one month, a non-finite
\* amount, and null.
RawEntries ==
  {DA(MK(2026, 1), 100), DA(MK(2026, 1), 250), DA(MK(2026, 3), 250),
   DA(MK(2026, 3), NaN), NullEntry}

\* Items with every field, with a non-finite defaultAmount, without
\* defaultAmount, and without the history arrays.
RawExpenses ==
  {Recurring(d, b, h, h, e) :
     d \in {50, NaN}, b \in {"carryForward", "monthOnly"},
     h \in SeqsUpTo(RawEntries, MaxRawEntries), e \in {<<>>, MK(2026, 3)}}
  \cup {[behavior |-> b, changes |-> h, overrides |-> h] :
          b \in {"carryForward", "monthOnly"}, h \in SeqsUpTo(RawEntries, MaxRawEntries)}
  \cup {[behavior |-> b, defaultAmount |-> 50] : b \in {"carryForward", "monthOnly"}}

RawExpensePlans ==
  LET st == CHOOSE x \in Settings : x.expectedReturnPct = 0
  IN  {[PlanOf(st, <<>>, "hybrid") EXCEPT !.expenses = <<it>>] : it \in RawExpenses}

InitStored ==
  /\ plan \in RawExpensePlans
  /\ page = "loading"
  /\ editMonthISO = InitialEditMonth
  /\ series = <<>>
  /\ asOf = NullAsOf
  /\ monthAmount = <<>>
  /\ windowMonths = InitialWindowMonths
  /\ offset = 0

NextStored == OpenExpenses \/ SetExpenseEditMonth \/ Navigate

SpecStored == InitStored /\ [][NextStored]_vars

(***************************************************************************)
(* Properties                                                              *)
(***************************************************************************)
OnDashboard == page = "dashboard"

\* The point buildNetWorthSeries pushed at loop index i.
PointAt(i) == series[i + 1]

\* The months at which some account holds a finite recorded balance.
EnteredMonths(p) ==
  {p.netWorthAccounts[a].balances[b].monthISO :
     <<a, b>> \in {<<a, b>> \in (1..Len(p.netWorthAccounts)) \X (1..MaxEntries + 1) :
                     /\ b <= Len(p.netWorthAccounts[a].balances)
                     /\ isFinite(p.netWorthAccounts[a].balances[b].amount)}}

\* C1: in hybrid mode, at every index of the horizon whose month has a
\* balance entry (hasNetWorthSnapshot), the point's netWorth is exactly
\* netWorthForMonth of that month: neither return nor cash flow is applied.
C1_HybridAnchorAgreement ==
  (OnDashboard /\ modeOf(plan) = "hybrid") =>
    \A i \in 0..months :
      hasNetWorthSnapshot(plan, monthOfIndex(plan, i)) =>
        PointAt(i).netWorth = netWorthForMonth(plan, monthOfIndex(plan, i))

\* A hybrid series with return and income in which an anchor after month 0
\* replaced a different modelled value.
C1_Witness ==
  /\ OnDashboard /\ modeOf(plan) = "hybrid"
  /\ annualPctOf(plan) # 0 /\ plan.income # <<>>
  /\ \E i \in 1..12 :
       /\ hasNetWorthSnapshot(plan, monthOfIndex(plan, i))
       /\ PointAt(i).netWorth = netWorthForMonth(plan, monthOfIndex(plan, i))
       /\ PointAt(i).netWorth #
            compound(PointAt(i - 1).netWorth, annualPctOf(plan))
              + netCashFlow(plan, monthOfIndex(plan, i))

ScenarioIncome == <<Recurring(1000, "carryForward", <<>>, <<>>, <<>>)>>

ScenarioSettings(p) ==
  /\ p.startMonthISO = MK(2026, 1)
  /\ p.expectedReturnPct = 12
  /\ p.income = ScenarioIncome
  /\ p.expenses = <<>> /\ p.oneTimeIncome = <<>> /\ p.oneTimeExpenses = <<>>

IsProjectionScenario(p) ==
  /\ ScenarioSettings(p)
  /\ p.netWorthMode = "projection"
  /\ p.netWorthAccounts = <<[balances |-> <<DA(MK(2026, 1), 10000)>>]>>

\* Balances 10000 at 2026-01 and 9000 at 2026-06 and no other entry, in one
\* account or two.
IsHybridScenario(p) ==
  /\ ScenarioSettings(p)
  /\ p.netWorthMode = "hybrid"
  /\ TotalEntries(p.netWorthAccounts) = 2
  /\ EnteredMonths(p) = {MK(2026, 1), MK(2026, 6)}
  /\ netWorthForMonth(p, MK(2026, 1)) = 10000
  /\ netWorthForMonth(p, MK(2026, 6)) = 9000

C4_HybridScenario ==
  (OnDashboard /\ IsHybridScenario(plan)) =>
    /\ \A i \in 0..6 : monthOfIndex(plan, i) = MK(2026, i + 1)
    /\ PointAt(0).netWorth = 10000
    /\ PointAt(1).netWorth = 11100
    /\ PointAt(2).netWorth = 12211
    /\ \A i \in 1..4 : PointAt(i).netWorth = compound(PointAt(i - 1).netWorth, 12) + 1000
    /\ PointAt(5).netWorth = 9000
    /\ PointAt(6).netWorth = 10090

C4_Witness ==
  /\ OnDashboard /\ IsHybridScenario(plan)
  /\ Len(plan.netWorthAccounts) = 1
  /\ PointAt(4).netWorth > 9000
  /\ PointAt(5).netWorth = 9000

\* A plan without return and without cash flows.
withoutModel(p) ==
  [p EXCEPT !.expectedReturnPct = 0, !.income = <<>>, !.expenses = <<>>,
            !.oneTimeIncome = <<>>, !.oneTimeExpenses = <<>>]

\* C5: in snapshot mode the series is the series of the same plan with
\* return 0 and no recurring or one-time items, so two snapshot plans that
\* differ only in those fields have identical series; and one account with
\* 10000 at the start month and no other entry gives 10000 at all 601 months.
C5_SnapshotIgnoresModel ==
  (OnDashboard /\ modeOf(plan) = "snapshot") =>
    /\ series = buildNetWorthSeries(withoutModel(plan))
    /\ plan.netWorthAccounts = <<[balances |-> <<DA(startOf(plan), 10000)>>]>> =>
         \A i \in 0..months : PointAt(i).netWorth = 10000

\* A snapshot series of a plan with return and income: flat at 10000.
C5_Witness ==
  /\ OnDashboard /\ plan.netWorthMode = "snapshot"
  /\ annualPctOf(plan) = 12 /\ plan.income # <<>>
  /\ plan.netWorthAccounts = <<[balances |-> <<DA(startOf(plan), 10000)>>]>>
  /\ PointAt(0).netWorth = 10000 /\ PointAt(months).netWorth = 10000

\* The entered months at or before month M, in the order of the keys.
EnteredAtOrBefore(p, M) == {m \in EnteredMonths(p) : StrLeq(m, M)}

LatestOf(S) == CHOOSE m \in S : \A o \in S : StrLeq(o, m)

\* C6: in snapshot mode every point equals the aggregate at the latest
\* entered month at or before the point's month (an entered month being one
\* with a finite recorded balance); with balances only at M1 < M2 the points
\* of [M1, M2) equal the aggregate of M1 and the points from M2 on that of M2.
C6_SnapshotCarryForward ==
  (OnDashboard /\ modeOf(plan) = "snapshot") =>
    \A i \in 0..months :
      LET before == EnteredAtOrBefore(plan, monthOfIndex(plan, i))
      IN  before # {} => PointAt(i).netWorth = netWorthForMonth(plan, LatestOf(before))

\* Balances only at 2026-01 and 2026-06: 10000 up to 2026-05, 9000 after.
C6_Witness ==
  /\ OnDashboard /\ plan.netWorthMode = "snapshot"
  /\ plan.startMonthISO = MK(2026, 1)
  /\ EnteredMonths(plan) = {MK(2026, 1), MK(2026, 6)}
  /\ PointAt(0).netWorth = 10000 /\ PointAt(4).netWorth = 10000
  /\ PointAt(5).netWorth = 9000 /\ PointAt(months).netWorth = 9000

C8_Original ==
  OnDashboard =>
    \A i \in 0..months :
      monthOfIndex(plan, i) \in EnteredMonths(plan) =>
        PointAt(i).netWorth = netWorthAsOf(plan, monthOfIndex(plan, i)).netWorth

\* C8 amended: the agreement holds in snapshot and hybrid mode; projection
\* mode ignores the snapshots.
C8_AsOfAgreesWithSeries ==
  (OnDashboard /\ modeOf(plan) \in {"snapshot", "hybrid"}) =>
    \A i \in 0..months :
      monthOfIndex(plan, i) \in EnteredMonths(plan) =>
        PointAt(i).netWorth = netWorthAsOf(plan, monthOfIndex(plan, i)).netWorth

\* A hybrid series with a legacy scalar, return and income that meets the
\* As-Of value at a snapshot month after the start month.
C8_Witness ==
  /\ OnDashboard /\ plan.netWorthMode = "hybrid"
  /\ legacyStartOf(plan) # 0 /\ annualPctOf(plan) # 0 /\ plan.income # <<>>
  /\ \E i \in 1..months :
       /\ monthOfIndex(plan, i) \in EnteredMonths(plan)
       /\ netWorthAsOf(plan, monthOfIndex(plan, i)).source = "snapshot"
       /\ PointAt(i).netWorth = netWorthAsOf(plan, monthOfIndex(plan, i)).netWorth
       /\ PointAt(i).netWorth # PointAt(i - 1).netWorth

OnExpenses == page = "expenses"

\* The entries of a history, as a set.
EntriesOf(h) == {h[k] : k \in DOMAIN h}

\* A history keyed by month: no two entries share a month.
KeyedByMonth(h) == \A i, j \in DOMAIN h : h[i].monthISO = h[j].monthISO => i = j

\* Every rearrangement of a history.
Rearrangements(h) ==
  {[k \in DOMAIN h |-> h[f[k]]] : f \in {g \in [DOMAIN h -> DOMAIN h] :
                                           \A i, j \in DOMAIN h : g[i] = g[j] => i = j}}

\* endMonth E of the item has lapsed at month M: M > E.
Lapsed(it, M) == it.endMonthISO # <<>> /\ StrLess(it.endMonthISO, M)

FiniteAmounts(it) ==
  isFinite(it.defaultAmount) /\ \A c \in EntriesOf(it.changes) : isFinite(c.amount)

\* The changes with the greatest month at or before M.
LatestChanges(it, M) ==
  LET before == {c \in EntriesOf(it.changes) : StrLeq(c.monthISO, M)}
  IN  {c \in before : \A o \in before : StrLeq(o.monthISO, c.monthISO)}

\* C9: for a carryForward item with finite amounts whose endMonth has not
\* lapsed at M, amountForMonth(item, M) is the amount of the change with the
\* greatest month <= M, and defaultAmount when no change has month <= M; with
\* the changes keyed by month (at most one per month), every order of storing
\* them gives the same result.
C9_MonotonicCarryForward ==
  OnExpenses =>
    \A k \in DOMAIN plan.expenses :
      LET it == plan.expenses[k]
          M == editMonthISO
          latest == LatestChanges(it, M)
      IN  (it.behavior = "carryForward" /\ FiniteAmounts(it) /\ ~Lapsed(it, M)) =>
            /\ monthAmount[k] = amountForMonth(it, M)
            /\ latest = {} => monthAmount[k] = it.defaultAmount
            /\ latest # {} => \E c \in latest : monthAmount[k] = c.amount
            /\ KeyedByMonth(it.changes) =>
                 \A h \in Rearrangements(it.changes) :
                   amountForMonth([it EXCEPT !.changes = h], M) = monthAmount[k]

\* Three changes stored out of month order, read at a month between the
\* second and the third of them.
C9_Witness ==
  /\ OnExpenses /\ editMonthISO = MK(2026, 4)
  /\ \E k \in DOMAIN plan.expenses :
       LET it == plan.expenses[k]
       IN  /\ it.behavior = "carryForward" /\ FiniteAmounts(it) /\ ~Lapsed(it, editMonthISO)
           /\ Len(it.changes) = 3 /\ KeyedByMonth(it.changes)
           /\ it.changes # sortDated(it.changes)
           /\ monthAmount[k] = 250

\* Months at which an item's amount is read around an edit.
ProbeMonths ==
  {MK(2025, 12), MK(2026, 1), MK(2026, 2), MK(2026, 3), MK(2026, 4), MK(2026, 5), MK(2026, 6)}

\* The step wrote an override of the monthOnly item at position k.
OverrideWritten(k) ==
  /\ OnExpenses /\ page' = "expenses"
  /\ k \in DOMAIN plan'.expenses
  /\ plan.expenses[k].behavior = "monthOnly"
  /\ plan'.expenses[k] = [plan.expenses[k] EXCEPT !.overrides = plan'.expenses[k].overrides]
  /\ plan'.expenses[k].overrides # plan.expenses[k].overrides

\* The entries the step added to the overrides of the item at position k.
WrittenEntries(k) ==
  EntriesOf(plan'.expenses[k].overrides) \ EntriesOf(plan.expenses[k].overrides)

\* C10 as stated: writing an override for month M leaves amountForMonth at
\* every other month unchanged, and amountForMonth(item, M) becomes the
\* override amount.
C10_Original ==
  [][\A k \in DOMAIN plan.expenses :
       OverrideWritten(k) =>
         /\ \A m \in ProbeMonths \ {editMonthISO} :
              amountForMonth(plan'.expenses[k], m) = amountForMonth(plan.expenses[k], m)
         /\ \A e \in WrittenEntries(k) :
              /\ e.monthISO = editMonthISO
              /\ amountForMonth(plan'.expenses[k], editMonthISO) = e.amount]_vars

\* C10 amended: the other months are unchanged; amountForMonth(item, M)
\* becomes the override amount when M is not after the item's endMonth, and
\* stays 0 when it is.
C10_OverrideIsolation ==
  [][\A k \in DOMAIN plan.expenses :
       OverrideWritten(k) =>
         /\ \A m \in ProbeMonths \ {editMonthISO} :
              amountForMonth(plan'.expenses[k], m) = amountForMonth(plan.expenses[k], m)
         /\ \A e \in WrittenEntries(k) :
              /\ e.monthISO = editMonthISO
              /\ amountForMonth(plan'.expenses[k], editMonthISO)
                   = IF Lapsed(plan.expenses[k], editMonthISO) THEN 0 ELSE e.amount
         /\ monthAmount'[k] = amountForMonth(plan'.expenses[k], editMonthISO)]_vars

\* A monthOnly item that holds the typed override 400 for the edit month
\* next to overrides of other months, and shows it.
C10_Witness ==
  /\ OnExpenses
  /\ \E k \in DOMAIN plan.expenses :
       LET it == plan.expenses[k]
       IN  /\ it.behavior = "monthOnly" /\ ~Lapsed(it, editMonthISO)
           /\ DA(editMonthISO, 400) \in EntriesOf(it.overrides)
           /\ Len(it.overrides) > 1
           /\ monthAmount[k] = 400

\* C11: for an item with endMonth E and either behavior, amountForMonth(item, M)
\* is 0 for every M > E whatever changes or overrides exist at or after E, and
\* for every M <= E (M = E included) it equals the result for the same item
\* without endMonth.
C11_EndMonthCutoff ==
  OnExpenses =>
    \A k \in DOMAIN plan.expenses :
      LET it == plan.expenses[k]
          E == it.endMonthISO
      IN  E # <<>> =>
            /\ \A M \in ProbeMonths :
                 amountForMonth(it, M) =
                   IF StrLess(E, M) THEN 0
                   ELSE amountForMonth([it EXCEPT !.endMonthISO = <<>>], M)
            /\ StrLess(E, editMonthISO) => monthAmount[k] = 0

\* An item of either behavior whose history has an entry at its endMonth and
\* one after it: 250 in the endMonth, nothing in the next month.
C11_Witness ==
  /\ OnExpenses /\ editMonthISO = MK(2026, 4)
  /\ \E k \in DOMAIN plan.expenses :
       LET it == plan.expenses[k]
           h == IF it.behavior = "monthOnly" THEN it.overrides ELSE it.changes
       IN  /\ it.endMonthISO = MK(2026, 3)
           /\ DA(MK(2026, 3), 250) \in EntriesOf(h)
           /\ DA(MK(2026, 5), 100) \in EntriesOf(h)
           /\ amountForMonth(it, MK(2026, 3)) = 250
           /\ amountForMonth([it EXCEPT !.endMonthISO = <<>>], MK(2026, 4)) # 0
           /\ monthAmount[k] = 0

\* The item at position k holds no null entry in the history its behavior
\* reads.
NoNullEntries(it) ==
  \A e \in EntriesOf(arrayOr(it, IF it.behavior = "monthOnly" THEN "overrides" ELSE "changes")) :
    e # NullEntry

\* C12 as stated: for every item and month, a non-finite or missing
\* defaultAmount, non-finite amounts, missing arrays and malformed entries
\* included, amountForMonth returns a finite number and raises no error.
C12_Original ==
  OnExpenses =>
    \A k \in DOMAIN plan.expenses :
      /\ monthAmount[k] # TypeError /\ isFinite(monthAmount[k])
      /\ \A M \in ProbeMonths :
           LET v == amountForMonth(plan.expenses[k], M)
           IN  v # TypeError /\ isFinite(v)

\* The balance an account holds exactly at month M, 0 without a finite one.
ExactBalance(acct, M) ==
  LET hits == {e \in EntriesOf(acct.balances) : e.monthISO = M /\ isFinite(e.amount)}
  IN  IF hits = {} THEN 0 ELSE (CHOOSE e \in hits : TRUE).amount

RECURSIVE ExactSum(_, _)
ExactSum(accounts, M) ==
  IF accounts = <<>> THEN 0 ELSE ExactBalance(Head(accounts), M) + ExactSum(Tail(accounts), M)

\* Values of the legacy scalar, the missing one included.
LegacyValues == {0, 777, 5000, NaN}

\* C13: netWorthForMonth(plan, M) is the sum over the accounts of the balance
\* entered exactly at M (0 for an account without a finite entry at M, each
\* account holding at most one entry per month); the legacy startingNetWorth
\* is returned only by a plan with zero accounts, and with at least one
\* account, even one without balances, the result does not depend on it.
C13_NetWorthForMonth ==
  page = "assumptions" =>
    \A M \in EditMonths :
      LET accounts == plan.netWorthAccounts
      IN  /\ accounts = <<>> =>
               \A legacy \in LegacyValues \ {NaN} :
                 netWorthForMonth([plan EXCEPT !.startingNetWorth = legacy], M) = legacy
          /\ (accounts # <<>> /\ \A k \in DOMAIN accounts : KeyedByMonth(accounts[k].balances)) =>
               netWorthForMonth(plan, M) = ExactSum(accounts, M)
          /\ accounts # <<>> =>
               \A legacy \in LegacyValues :
                 netWorthForMonth([plan EXCEPT !.startingNetWorth = legacy], M)
                   = netWorthForMonth(plan, M)

\* A plan with a legacy scalar and two accounts, one of them without a
\* balance at the edit month: the sum is the other account's balance.
C13_Witness ==
  /\ page = "assumptions" /\ editMonthISO = MK(2026, 6)
  /\ plan.startingNetWorth = 5000
  /\ Len(plan.netWorthAccounts) = 2
  /\ plan.netWorthAccounts[1].balances = <<DA(MK(2026, 1), 10000)>>
  /\ plan.netWorthAccounts[2].balances = <<DA(MK(2026, 6), 9000)>>
  /\ netWorthForMonth(plan, editMonthISO) = 9000
  /\ asOf.netWorth = 9000

\* A history with, for each month, only its first entry in array order.
RECURSIVE FirstPerMonth(_)
FirstPerMonth(h) ==
  IF h = <<>> THEN <<>>
  ELSE LET init == SubSeq(h, 1, Len(h) - 1)
           last == h[Len(h)]
       IN  IF \E k \in DOMAIN init : init[k].monthISO = last.monthISO
           THEN FirstPerMonth(init)
           ELSE Append(FirstPerMonth(init), last)

\* C14 as stated: with several entries for one month in a history, the
\* monthOnly override lookup and the carryForward change lookup use the first
\* of them in array order and do not fail: the result is that of the history
\* reduced to the first entry of each month.
C14_Original ==
  OnExpenses =>
    \A k \in DOMAIN plan.expenses :
      LET it == plan.expenses[k]
      IN  ("changes" \in DOMAIN it /\ NoNullEntries(it)) =>
            \A M \in ProbeMonths :
              /\ amountForMonth(it, M) # TypeError
              /\ amountForMonth(it, M) =
                   amountForMonth([it EXCEPT !.changes = FirstPerMonth(it.changes),
                                             !.overrides = FirstPerMonth(it.overrides)], M)

\* A well-formed month key: YYYY-MM with MM in 01..12.
WellFormedMonth(m) ==
  IsMonthKey(m) /\ NumberOf(Slice(m, 5, 7)) \in 1..12

\* C15 as stated: for every plan whose start month is missing or is not a
\* well-formed YYYY-MM key, buildNetWorthSeries returns the series of the
\* same plan with start month 2026-01.
C15_Original ==
  (OnDashboard /\ ~WellFormedMonth(plan.startMonthISO)) =>
    series = buildNetWorthSeries([plan EXCEPT !.startMonthISO = MK(2026, 1)])

\* The histories of a plan: every account's balances and every expense's
\* changes and overrides, by position.
HistoriesOf(p) ==
  [k \in DOMAIN p.netWorthAccounts |-> p.netWorthAccounts[k].balances]
  \o [k \in DOMAIN p.expenses |-> p.expenses[k].changes]
  \o [k \in DOMAIN p.expenses |-> p.expenses[k].overrides]

SortedByMonth(h) == \A i, j \in DOMAIN h : i < j => StrLeq(h[i].monthISO, h[j].monthISO)

\* History g is history h after a write of amount a to month M.
IsWriteOf(g, h, M, a) ==
  /\ KeyedByMonth(g) /\ SortedByMonth(g)
  /\ DA(M, a) \in EntriesOf(g)
  /\ {e \in EntriesOf(g) : e.monthISO # M} = {e \in EntriesOf(h) : e.monthISO # M}

\* C16: starting from histories without duplicate months, every
\* set-amount-for-month edit (an item's changes or overrides on the Expenses
\* page, an account's balances on the Assumptions page) leaves every history
\* with at most one entry per month; the edited history is sorted ascending
\* by month, holds for the edited month the amount written and keeps the
\* entries of the other months.
C16_LastWriteWins ==
  [][/\ \A k \in DOMAIN HistoriesOf(plan) : KeyedByMonth(HistoriesOf(plan)[k])
     /\ DOMAIN HistoriesOf(plan') = DOMAIN HistoriesOf(plan)
     /\ \A k \in DOMAIN HistoriesOf(plan) :
          LET h == HistoriesOf(plan)[k]
              g == HistoriesOf(plan')[k]
          IN  /\ KeyedByMonth(g)
              /\ (page' = page /\ editMonthISO' = editMonthISO /\ page # "loading") =>
                   \/ g = h
                   \/ \E typed \in TypedAmounts :
                        IsWriteOf(g, h, editMonthISO, parseMoneyLoose(typed))]_vars

\* An account history and an expense history that each hold the written
\* amount 400 next to an entry of an earlier or later month.
C16_Witness ==
  /\ \E k \in DOMAIN plan.netWorthAccounts :
       LET b == plan.netWorthAccounts[k].balances
       IN  Len(b) = 2 /\ b[2] = DA(MK(2026, 1), 400) /\ b[1].monthISO = MK(2025, 12)
  /\ \E k \in DOMAIN plan.expenses :
       \E h \in {plan.expenses[k].changes, plan.expenses[k].overrides} :
         Len(h) = 3 /\ h[1] = DA(MK(2026, 1), 400) /\ h[2] = DA(MK(2026, 3), 400)

ArrayFields == {"income", "expenses", "oneTimeIncome", "oneTimeExpenses"}

\* What the stored content holds in a field of its object, if it is one.
StoredField(raw, field) ==
  IF raw.kind = "parsed" THEN prop(raw.value, field) ELSE Undefined

\* The plan is structurally valid: every field is there and the mode is one
\* of the three.
StructurallyValid(p) ==
  /\ DOMAIN p = DOMAIN DEFAULT_PLAN
  /\ \A k \in DOMAIN p.netWorthAccounts : "balances" \in DOMAIN p.netWorthAccounts[k]
  /\ p.netWorthMode \in Modes

\* C17: for every stored content, absent, unparsable, or parsed with missing
\* or non-array fields, loadPlan returns a plan with all its fields in which
\* income, expenses, oneTimeIncome and oneTimeExpenses are the stored arrays
\* and empty where the stored value is not an array, netWorthAccounts has
\* one account per element of the stored array, each with the element's
\* balances array or an empty one, and netWorthMode is the stored mode when
\* it is snapshot, projection or hybrid and hybrid otherwise.
C17_LoadPlanValid ==
  [][("kind" \in DOMAIN plan /\ page' = "assumptions") =>
       /\ StructurallyValid(plan')
       /\ \A f \in ArrayFields :
            plan'[f] = IF StoredField(plan, f).t = "array" THEN StoredField(plan, f).v ELSE <<>>
       /\ LET stored == StoredField(plan, "netWorthAccounts")
          IN  IF plan.kind = "parsed" /\ stored.t # "array"
              THEN plan'.netWorthAccounts = <<>>
              ELSE IF plan.kind = "parsed"
              THEN /\ Len(plan'.netWorthAccounts) = Len(stored.v)
                   /\ \A k \in DOMAIN stored.v :
                        LET b == prop(stored.v[k], "balances")
                        IN  plan'.netWorthAccounts[k].balances
                              = IF b.t = "array" THEN b.v ELSE <<>>
              ELSE plan'.netWorthAccounts = DEFAULT_PLAN.netWorthAccounts
       /\ LET m == StoredField(plan, "netWorthMode")
          IN  plan'.netWorthMode
                = IF m.t = "string" /\ m.s \in Modes THEN m.s ELSE "hybrid"]_vars

\* The plan loaded from a stored object whose income is not an array, whose
\* accounts hold null, an account without balances and one whose balances is
\* a string, and whose mode is not one of the three: shown on the
\* Assumptions page with hybrid mode, no income and four accounts.
C17_Witness ==
  /\ page = "assumptions"
  /\ plan.startingNetWorth = 4242
  /\ plan.netWorthMode = "hybrid"
  /\ plan.income = <<>> /\ plan.expenses = <<>>
  /\ Len(plan.netWorthAccounts) = 4
  /\ plan.netWorthAccounts[1].balances = <<>>
  /\ plan.netWorthAccounts[2].balances = <<DA(MK(2026, 1), 10000)>>
  /\ plan.netWorthAccounts[4].balances = <<>>

\* Some account holds an entry exactly at month M.
EntryAt(p, M) ==
  \E k \in DOMAIN p.netWorthAccounts :
    \E e \in EntriesOf(p.netWorthAccounts[k].balances) : e.monthISO = M

RECURSIVE OnlyAt(_, _)
OnlyAt(h, M) ==
  IF h = <<>> THEN <<>>
  ELSE IF Head(h).monthISO = M THEN <<Head(h)>> \o OnlyAt(Tail(h), M)
  ELSE OnlyAt(Tail(h), M)

\* The plan without the balance entries at months other than its start month.
AtStartOnly(p) ==
  [p EXCEPT !.netWorthAccounts =
     [k \in DOMAIN p.netWorthAccounts |->
        [balances |-> OnlyAt(p.netWorthAccounts[k].balances, startOf(p))]]]

\* C19: in projection mode the series of a plan is the series of the same
\* plan without its balance entries at months other than the start month,
\* earlier or later; so two projection plans that differ only in such
\* entries have the same series.
C19_ProjectionIgnoresOtherMonths ==
  (OnDashboard /\ plan.netWorthMode = "projection") =>
    series = buildNetWorthSeries(AtStartOnly(plan))

\* A projection from 2026-03 over balances at 2025-11, 2026-03 and 2026-08:
\* it starts from the 8000 of 2026-03 and does not take the 9000 at 2026-08.
C19_Witness ==
  /\ OnDashboard /\ plan.netWorthMode = "projection"
  /\ plan.startMonthISO = MK(2026, 3)
  /\ plan.netWorthAccounts =
       <<[balances |-> <<DA(MK(2025, 11), 7000), DA(MK(2026, 3), 8000), DA(MK(2026, 8), 9000)>>]>>
  /\ PointAt(0).netWorth = compound(8000, 12) + netCashFlow(plan, MK(2026, 3))
  /\ monthOfIndex(plan, 5) = MK(2026, 8)
  /\ PointAt(5).netWorth # 9000

\* The months before M at which some account holds a finite balance.
SnapshotMonthsBefore(p, M) ==
  {e.monthISO : e \in {x \in UNION {EntriesOf(p.netWorthAccounts[k].balances) :
                                      k \in DOMAIN p.netWorthAccounts} :
                         isFinite(x.amount) /\ StrLess(x.monthISO, M)}}

FiniteEntryMonths(p) ==
  {e.monthISO : e \in {x \in UNION {EntriesOf(p.netWorthAccounts[k].balances) :
                                      k \in DOMAIN p.netWorthAccounts} :
                         isFinite(x.amount)}}

\* Those at or before month M.
FiniteEntryMonthsUpTo(p, M) == {m \in FiniteEntryMonths(p) : StrLeq(m, M)}

\* At every month of the horizon whose latest entered month has aggregate 0,
\* the snapshot-mode point is 0 and netWorthAsOf is 0 with source snapshot.
ZeroIsData ==
  \A i \in 0..months :
    LET M == monthOfIndex(plan, i)
        upTo == FiniteEntryMonthsUpTo(plan, M)
    IN  (upTo # {} /\ ExactSum(plan.netWorthAccounts, LatestOf(upTo)) = 0) =>
          /\ PointAt(i).netWorth = 0
          /\ netWorthAsOf(plan, M)
               = [monthISO |-> LatestOf(upTo), netWorth |-> 0, source |-> "snapshot"]

\* The snapshot-mode series holds the legacy scalar only when no balance
\* entry exists anywhere: with entries only after a month the point is 0.
SeriesLegacyOnlyWithoutEntries ==
  \A i \in 0..months :
    LET M == monthOfIndex(plan, i)
    IN  /\ FiniteEntryMonths(plan) = {} => PointAt(i).netWorth = plan.startingNetWorth
        /\ (FiniteEntryMonths(plan) # {} /\ FiniteEntryMonthsUpTo(plan, M) = {}) =>
             PointAt(i).netWorth = 0

C22_NoAccountCarryForward ==
  OnDashboard =>
    \A i \in 0..months :
      LET M == monthOfIndex(plan, i)
          upTo == FiniteEntryMonthsUpTo(plan, M)
      IN  /\ (plan.netWorthMode = "snapshot" /\ upTo # {}) =>
               PointAt(i).netWorth = ExactSum(plan.netWorthAccounts, LatestOf(upTo))
          /\ (plan.netWorthMode = "hybrid" /\ EntryAt(plan, M)) =>
               PointAt(i).netWorth = ExactSum(plan.netWorthAccounts, M)
          /\ (plan.netWorthMode # "projection" /\ upTo # {}) =>
               netWorthAsOf(plan, M).netWorth = ExactSum(plan.netWorthAccounts, LatestOf(upTo))

\* Two accounts, one with 10000 at 2026-01 and 9000 at 2026-06, the other
\* with 500 at 2026-03, in snapshot mode from 2026-01: the series holds 500
\* from 2026-03 and 9000 from 2026-06, each being one account's entry alone.
C22_Witness ==
  /\ OnDashboard /\ plan.netWorthMode = "snapshot"
  /\ plan.startMonthISO = MK(2026, 1)
  /\ Len(plan.netWorthAccounts) = 2
  /\ plan.netWorthAccounts[1].balances = <<DA(MK(2026, 1), 10000), DA(MK(2026, 6), 9000)>>
  /\ plan.netWorthAccounts[2].balances = <<DA(MK(2026, 3), 500)>>
  /\ PointAt(1).netWorth = 10000 /\ PointAt(2).netWorth = 500
  /\ PointAt(4).netWorth = 500 /\ PointAt(5).netWorth = 9000

\* C23 as stated: for every plan and month M, hasNetWorthSnapshot(plan, M) is
\* true exactly when snapshotMonthAtOrBefore(plan, M) = M, so the hybrid
\* series anchors at a month only when it holds a finite balance entry.
C23_Original ==
  OnDashboard =>
    \A i \in 0..months :
      LET M == monthOfIndex(plan, i)
      IN  /\ hasNetWorthSnapshot(plan, M) <=> snapshotMonthAtOrBefore(plan, M) = M
          /\ (plan.netWorthMode = "hybrid" /\ M \notin FiniteEntryMonths(plan)) =>
               PointAt(i).netWorth
                 = compound(IF i = 0 THEN baseline(plan) ELSE PointAt(i - 1).netWorth,
                            plan.expectedReturnPct)
                   + netCashFlow(plan, M)

\* The calendar month i months after the well-formed key start, as a year
\* and a month 1..12.
CalendarYear(start, i) ==
  DigitsValue(SubSeq(start, 1, 4)) + ((DigitsValue(SubSeq(start, 6, 7)) - 1 + i) \div 12)
CalendarMonth(start, i) == ((DigitsValue(SubSeq(start, 6, 7)) - 1 + i) % 12) + 1

\* C24 as stated: for every well-formed start month YYYY-MM, the key at
\* index 0 is the start month key itself, the key at index i has the year and
\* the month (01..12) of the calendar month i months after the start month,
\* the year increasing by one after each December, and the keys of indices
\* 0..600 are strictly increasing in the lexicographic order.
C24_Original ==
  (OnDashboard /\ WellFormedMonth(plan.startMonthISO)) =>
    LET start == plan.startMonthISO
        key(i) == monthOfIndex(plan, i)
    IN  /\ key(0) = start
        /\ \A i \in 0..months :
             LET k == key(i)
             IN  /\ Len(k) >= 4
                 /\ k[Len(k) - 2] = Minus
                 /\ AllDigits(SubSeq(k, 1, Len(k) - 3))
                 /\ DigitsValue(SubSeq(k, 1, Len(k) - 3)) = CalendarYear(start, i)
                 /\ AllDigits(SubSeq(k, Len(k) - 1, Len(k)))
                 /\ DigitsValue(SubSeq(k, Len(k) - 1, Len(k))) = CalendarMonth(start, i)
        /\ \A i \in 1..months : StrLess(key(i - 1), key(i))

\* Every month key the plan holds: the start month and the keys of balances,
\* changes, overrides and one-time items.
MonthKeysOf(p) ==
  {p.startMonthISO}
  \cup {e.monthISO : e \in UNION {EntriesOf(HistoriesOf(p)[k]) : k \in DOMAIN HistoriesOf(p)}}
  \cup {e.monthISO : e \in EntriesOf(p.oneTimeIncome) \cup EntriesOf(p.oneTimeExpenses)}

\* C25 as stated: after any sequence of edits on the pages, every month key
\* held in the plan is a well-formed YYYY-MM key.
C25_Original == \A m \in MonthKeysOf(plan) : WellFormedMonth(m)

\* The netWorth of an As-Of result, 0 when it is none.
AsOfValue(a) == IF a = NullAsOf THEN 0 ELSE a.netWorth

Redated(h, M, v) ==
  [k \in DOMAIN h |-> IF StrLess(h[k].monthISO, M) THEN DA(h[k].monthISO, v) ELSE h[k]]

\* The plan with another legacy scalar and without the balance entries and
\* the one-time items dated before month M.
WithoutPast(p, M) ==
  [p EXCEPT !.startingNetWorth = 777,
            !.netWorthAccounts =
              [k \in DOMAIN p.netWorthAccounts |->
                 [balances |-> SelectSeq(p.netWorthAccounts[k].balances,
                                         LAMBDA e : ~StrLess(e.monthISO, M))]],
            !.oneTimeIncome = SelectSeq(p.oneTimeIncome, LAMBDA e : ~StrLess(e.monthISO, M)),
            !.oneTimeExpenses = SelectSeq(p.oneTimeExpenses, LAMBDA e : ~StrLess(e.monthISO, M))]

\* The plan with legacy scalar 0, other amounts in the balance entries and
\* one-time items dated before month M, and one more one-time income at the
\* start month when that is before M.
WithOtherPast(p, M) ==
  [p EXCEPT !.startingNetWorth = 0,
            !.netWorthAccounts =
              [k \in DOMAIN p.netWorthAccounts |->
                 [balances |-> Redated(p.netWorthAccounts[k].balances, M, 123)]],
            !.oneTimeIncome =
              Redated(p.oneTimeIncome, M, 5)
              \o (IF StrLess(startOf(p), M) THEN <<DA(startOf(p), 4000)>> ELSE <<>>),
            !.oneTimeExpenses = Redated(p.oneTimeExpenses, M, 5)]

\* The first months of the horizon: every balance entry of the documents
\* lies within them.
AnchorIndices == 0..12

\* C27: in hybrid mode, if the month at index k has a snapshot, the points
\* series[j], j >= k, are the same for the plan with another legacy
\* startingNetWorth and other, or no, balance entries and one-time items
\* dated before month k.
C27_HybridAnchorResets ==
  (OnDashboard /\ plan.netWorthMode = "hybrid") =>
    \A k \in AnchorIndices :
      LET M == monthOfIndex(plan, k)
      IN  hasNetWorthSnapshot(plan, M) =>
            LET without == buildNetWorthSeries(WithoutPast(plan, M))
                other == buildNetWorthSeries(WithOtherPast(plan, M))
            IN  \A j \in k..months :
                  /\ without[j + 1].netWorth = PointAt(j).netWorth
                  /\ other[j + 1].netWorth = PointAt(j).netWorth

\* A hybrid plan from 2026-03 with one-time items at 2026-04 and 2026-06 and
\* balances at 2025-11, 2026-03 and 2026-08: the anchor at index 5 sets the
\* series to 9000 whatever came before.
C27_Witness ==
  /\ OnDashboard /\ plan.netWorthMode = "hybrid"
  /\ plan.startMonthISO = MK(2026, 3)
  /\ plan.oneTimeIncome # <<>> /\ plan.oneTimeExpenses # <<>>
  /\ plan.netWorthAccounts =
       <<[balances |-> <<DA(MK(2025, 11), 7000), DA(MK(2026, 3), 8000), DA(MK(2026, 8), 9000)>>]>>
  /\ PointAt(0).netWorth = 8000 /\ PointAt(4).netWorth # 8000
  /\ PointAt(5).netWorth = 9000
  /\ buildNetWorthSeries(WithoutPast(plan, MK(2026, 8)))[5].netWorth # PointAt(4).netWorth

\* C28 as stated: in projection mode the Net Worth KPI, the netWorth of
\* netWorthAsOf(plan, startMonth) or 0 when it is none, equals the baseline
\* buildNetWorthSeries starts the projection from.
C28_Original ==
  (OnDashboard /\ plan.netWorthMode = "projection") =>
    AsOfValue(asOf) = baseline(plan)

\* C29 as stated: outside projection mode, leaving a Balance field with the
\* text it was rendered with leaves netWorthAsOf(plan, editMonth).netWorth
\* as it was, for every plan, account and edit month and after any number
\* of such blurs.
C29_Original == [][BlurBalance => AsOfValue(asOf') = AsOfValue(asOf)]_vars

\* C30: on the dashboard, after any window size selections and slider
\* moves, 0 <= effOffset <= 600 - windowMonths, and the windowed series has
\* exactly windowMonths + 1 points: the series points of monthIndex
\* effOffset .. effOffset + windowMonths, re-indexed to 0 .. windowMonths
\* with their netWorth.  The same holds in the render that follows a window
\* size button before the effect has cut the offset.
C30_ChartWindow ==
  OnDashboard =>
    \A m \in WindowSizes \cup {windowMonths} :
      LET e == effOffset(series, m, offset)
          w == windowed(series, m, offset)
      IN  /\ 0 <= e /\ e <= months - m
          /\ Len(w) = m + 1
          /\ \A i \in 0..m :
               /\ w[i + 1].monthIndex = i
               /\ w[i + 1].netWorth = PointAt(e + i).netWorth

\* The slider at 594 under the window of 6 months, then the window of 60
\* months: the offset is cut to 540 and the window ends with the last point
\* of the series.
C30_Witness ==
  /\ OnDashboard /\ windowMonths = 60 /\ offset = 540
  /\ PointAt(540).netWorth # PointAt(600).netWorth
  /\ windowed(series, windowMonths, offset)[61]
       = [monthIndex |-> 60, netWorth |-> PointAt(600).netWorth]

====
